---- MODULE Spec2Model ----
(***************************************************************************)
(* A model of wrapanapi/systems/openstack.py: the marker paginator of      *)
(* OpenstackSystem, the floating-IP protocol and the power-state           *)
(* operations of OpenstackInstance, its delete and mark_as_template,       *)
(* OpenstackSystem.delete_floating_ip and get_vm, and OpenstackImage.deploy,*)
(* each against a backend that other actors change concurrently.           *)
(***************************************************************************)
EXTENDS Integers, Sequences, FiniteSets, TLC

\* ------------------------------------------------------------------ bounds
\* Number of items the backend collection holds when a listing starts.
NumItems == 11
\* Largest page a single listing call returns.
MaxPage == 2
\* How many items that were not yet accumulated other actors may delete.
MaxUnseenDeletes == 1

\* Number of addresses the floating-IP pool can hand out.
NumAddrs == 3

\* How many numbered variants of an override flavor's name may be taken already.
MaxTaken == 1

\* Number of instances list_vms returns.
NumVms == 2

\* ---------------------------------------------------- program constants
\* range(min(10, len(lists))): the number of markers tried for one page.
MaxRollback == 10

\* if retry_count >= 3: the number of retries after which a Timeout is raised.
MaxRetries == 3

VARIABLES
    \* --- backend collection listed by _generic_paginator
    alive,          \* ids of the items the backend currently holds
    unseenDeleted,  \* number of deletions of items not accumulated yet
    \* --- _generic_paginator's frame
    ppc,            \* "loop" | "returned" | "raised"
    lists,          \* the accumulated items (their ids), in order
    pi,             \* the for loop's i: markers rejected for this page so far
    prejected,      \* the markers rejected for this page
    pcalls,         \* listing calls issued for the page being fetched
    plastdepth,     \* i at the last accepted listing call (0: newest marker)
    pmarker,        \* the marker the last listing call carried (0: none)
    prolled,        \* some page was fetched with an older marker after a rejection
    presult         \* the list returned

VARIABLES
    \* --- the backend's floating IPs and the instance's addresses
    fip,            \* address -> "unalloc" | "free" | "self" | "other"
    inst_fips,      \* floating addresses on this instance, in reporting order
    \* --- assign_floating_ip's frame
    apc,            \* control position of assign_floating_ip
    afree,          \* free_ips: the last listing of free addresses
    aip,            \* ip: the address chosen to attach (NoAddr: unbound)
    aobs,           \* the value the last read of self.ip gave
    aresult,        \* the value returned
    aerr,           \* the error raised ("" while none)
    aflags          \* what this call did so far (see NoFlags)

VARIABLES
    \* --- the instance in the backend
    status,         \* the status the backend reports for the instance
    task,           \* the status an accepted command is taking it to ("none")
    vexists,        \* the backend still holds the instance
    vdeleting,      \* a delete of the instance was accepted
    \* --- the frame of the instance operation in progress
    op,             \* the method running: start, stop, suspend, pause, delete
    outer,          \* the method that called it ("restart"), or "none"
    opc,            \* control position inside op
    ocmd,           \* the power command chosen ("none" before)
    oreads,         \* the states op has read before choosing, in order
    cmds,           \* backend commands issued by this call: [c, at], in order
    ores,           \* the value returned ("" before)
    oerr,           \* the error raised ("" while none)
    oflags,         \* restart's phase and the target states observed
    dframe          \* delete's and unassign_floating_ip's locals

VARIABLES
    \* --- the frame of delete_floating_ip (OpenstackSystem)
    rpc,            \* control position of delete_floating_ip
    rform,          \* what the caller passed: "none" | "raw" | "object"
    raddr,          \* the address passed, or the passed object's (NoAddr: None)
    rlisted,        \* the backend listed that address when the call began
    rround,         \* 1: first call; 2: the same argument released again
    rcmds,          \* backend commands this call issued: [c, attached]
    rseen,          \* a listing made by this call showed no such address
    rres,           \* the value returned ("" before)
    rerr            \* the error raised ("" while none)

VARIABLES
    \* --- the instance's name and its snapshot image in the backend
    vname,          \* the name the backend holds for the instance
    image,          \* status of the snapshot image ("none" before any)
    imgname,        \* the name the snapshot was requested under
    \* --- the frame of mark_as_template
    tpc,            \* control position of mark_as_template
    torig,          \* original_name
    tlog,           \* what the call did and observed so far: <<event, value>>
    tprimary,       \* the error of the step that failed ("" while none)
    trollback,      \* the rename back: "none" | "ok" | "failed"
    terr,           \* the error raised to the caller ("" while none)
    tfrom,          \* where terr came from: "entry" | "step" | "rename"
    tres            \* the value returned ("" before)

VARIABLES
    \* --- the backend's flavors, and the frame of OpenstackImage.deploy
    flavors,        \* the flavors the backend holds: [name, ram, cpu, disk]
    dpc,            \* control position of deploy
    dkw,            \* the arguments: vm_name and the kwargs (see DeployArgs)
    dflavor,        \* flavor: the flavor deploy holds for servers.create
    dvm_name,       \* the local vm_name ("" before line 494)
    dfname,         \* _get_or_create_override_flavor: flavor_name
    dcounter,       \* _get_or_create_override_flavor: counter
    dmade,          \* what _get_or_create_override_flavor returned
    derr,           \* the error raised ("" while none)
    dres            \* the instance returned (NoInstance before)

VARIABLES
    \* --- the instances list_vms returns, and the frame of get_vm
    insts,          \* id -> [name, ip] of each instance listed
    gpc,            \* control position of get_vm
    gargs,          \* the arguments name, id, ip ("" / 0 / NoAddr: None)
    gmatches,       \* matches: the ids find_vms returned, in listing order
    gres,           \* the value returned (0: None; an id: that instance)
    gerr            \* the error raised ("" while none)

VARIABLES
    \* --- the fault the backend reports, and a caller's read of instance.state
    fault,          \* the backend's record of the instance has a fault attribute
    sseen,          \* what the backend held at the last read: [status, fault]
    sval,           \* the state that read returned ("" when it raised)
    serr,           \* the error that read raised ("" when it returned)
    smsg            \* which message the error carries: "fault" | "generic"

VARIABLES
    \* --- the frames of one request through _request_timeout_handler
    qpc,            \* control position of the outermost call
    qreq,           \* the request: [url, method]
    retry_count,    \* retry_count of the innermost frame
    qlog,           \* what each SessionClient.request of the call ended in
    qres,           \* the response returned ("" while none)
    qerr            \* the error raised ("" while none)

pagvars == <<alive, unseenDeleted, ppc, lists, pi, prejected, pcalls,
             plastdepth, pmarker, prolled, presult>>

fipvars == <<fip, inst_fips>>

asgvars == <<apc, afree, aip, aobs, aresult, aerr, aflags>>

vmvars == <<status, task, vexists, vdeleting>>

opvars == <<op, outer, opc, ocmd, oreads, cmds, ores, oerr, oflags, dframe>>

relvars == <<rpc, rform, raddr, rlisted, rround, rcmds, rseen, rres, rerr>>

tplvars == <<vname, image, imgname, tpc, torig, tlog, tprimary, trollback,
             terr, tfrom, tres>>

depvars == <<flavors, dpc, dkw, dflavor, dvm_name, dfname, dcounter, dmade, derr,
             dres>>

getvars == <<insts, gpc, gargs, gmatches, gres, gerr>>

stvars == <<fault, sseen, sval, serr, smsg>>

reqvars == <<qpc, qreq, retry_count, qlog, qres, qerr>>

\* the state of the operations added after the instance's own
othervars == <<relvars, tplvars, depvars, getvars, stvars, reqvars>>

\* what delete_floating_ip, mark_as_template, deploy, get_vm and a read of
\* state each leave alone of it
besideRelease == <<tplvars, depvars, getvars, stvars, reqvars>>

besideTemplate == <<relvars, depvars, getvars, stvars, reqvars>>

besideDeploy == <<relvars, tplvars, getvars, stvars, reqvars>>

besideGetVm == <<relvars, tplvars, depvars, stvars, reqvars>>

besideState == <<relvars, tplvars, depvars, getvars, reqvars>>

besideRequest == <<relvars, tplvars, depvars, getvars, stvars>>

vars == <<pagvars, fipvars, asgvars, vmvars, opvars, othervars>>

\* ----------------------------------------------------------------- helpers
Min(a, b) == IF a < b THEN a ELSE b

Range(s) == {s[k] : k \in 1..Len(s)}

NoDuplicates(s) == \A j, k \in 1..Len(s) : s[j] = s[k] => j = k

Items == 1..NumItems

\* ------------------------------------------------- the backend's listing
\* The items after `marker` (0: from the start) the backend holds, in its order.
RECURSIVE AliveFrom(_, _)
AliveFrom(x, live) ==
    IF x > NumItems THEN <<>>
    ELSE IF x \in live THEN <<x>> \o AliveFrom(x + 1, live)
    ELSE AliveFrom(x + 1, live)

\* f(marker=m) with a page limit of p items: the first p items after the marker.
ListPage(marker, p, live) ==
    LET rest == AliveFrom(marker + 1, live)
    IN  SubSeq(rest, 1, Min(p, Len(rest)))

\* f(marker=m) fails with BadRequest when the marker's item is gone.
MarkerAccepted(marker, live) == marker \in live

\* --------------------------------------------------- _generic_paginator
RollbackWindowWide(l) == Min(MaxRollback + 1, Len(l))

\* for i in range(min(10, len(lists)))
RollbackWindow(l) == Min(MaxRollback, Len(l))

MarkerAtOlder(l, i) == l[IF Len(l) - i > 1 THEN Len(l) - i - 1 ELSE 1]

\* list_offset = -(i + 1); marker = lists[list_offset].id
MarkerAt(l, i) == l[Len(l) - i]

AfterRejectionNoRaise(i, l) == IF i + 1 < RollbackWindow(l) THEN "loop" ELSE "returned"

\* except BadRequest: continue; the for's else clause raises once the window
\* is used up.
AfterRejection(i, l) == IF i + 1 < RollbackWindow(l) THEN "loop" ELSE "raised"

MoreToFetchIfLong(temp_list) == Len(temp_list) > 1

\* if temp_list: an empty page ends the listing
MoreToFetch(temp_list) == temp_list # <<>>

\* if temp_list: lists.extend(temp_list) else: break; return lists
PagAfterPage(temp_list) ==
    IF MoreToFetch(temp_list)
    THEN /\ lists' = lists \o temp_list
         /\ ppc' = "loop"
         /\ presult' = presult
    ELSE /\ lists' = lists
         /\ ppc' = "returned"
         /\ presult' = lists

\* if not lists: temp_list = f()
PagFirstCall ==
    /\ ppc = "loop"
    /\ lists = <<>>
    /\ \E p \in 1..MaxPage : PagAfterPage(ListPage(0, p, alive))
    /\ pi' = 0
    /\ prejected' = {}
    /\ pcalls' = 1
    /\ plastdepth' = 0
    /\ pmarker' = 0
    /\ UNCHANGED <<alive, unseenDeleted, prolled>>
    /\ UNCHANGED <<fipvars, asgvars, vmvars, opvars>>
    /\ UNCHANGED othervars

\* One turn of the for loop: f(marker=marker), then break or continue;
\* the for's else clause raises when the window is used up.
PagMarkerCall ==
    /\ ppc = "loop"
    /\ lists # <<>>
    /\ pi < RollbackWindow(lists)
    /\ LET marker == MarkerAt(lists, pi)
       IN  /\ pmarker' = marker
           /\ IF MarkerAccepted(marker, alive)
              THEN /\ \E p \in 1..MaxPage : PagAfterPage(ListPage(marker, p, alive))
                   /\ plastdepth' = pi
                   /\ prolled' = (prolled \/ pi > 0)
                   /\ pcalls' = pi + 1
                   /\ pi' = 0
                   /\ prejected' = {}
              ELSE /\ pi' = pi + 1
                   /\ pcalls' = pi + 1
                   /\ prejected' = prejected \cup {marker}
                   /\ ppc' = AfterRejection(pi, lists)
                   /\ UNCHANGED <<lists, presult, plastdepth, prolled>>
    /\ UNCHANGED <<alive, unseenDeleted>>
    /\ UNCHANGED <<fipvars, asgvars, vmvars, opvars>>
    /\ UNCHANGED othervars

\* Another actor deletes an item the scan has already accumulated.
DeleteAccumulated ==
    /\ ppc = "loop"
    /\ \E x \in alive \cap Range(lists) : alive' = alive \ {x}
    /\ UNCHANGED <<unseenDeleted, ppc, lists, pi, prejected, pcalls, plastdepth,
                   pmarker, prolled, presult>>
    /\ UNCHANGED <<fipvars, asgvars, vmvars, opvars>>
    /\ UNCHANGED othervars

\* Another actor deletes an item the scan has not reached yet.
DeleteUnseen ==
    /\ ppc = "loop"
    /\ unseenDeleted < MaxUnseenDeletes
    /\ \E x \in alive \ Range(lists) : alive' = alive \ {x}
    /\ unseenDeleted' = unseenDeleted + 1
    /\ UNCHANGED <<ppc, lists, pi, prejected, pcalls, plastdepth, pmarker, prolled,
                   presult>>
    /\ UNCHANGED <<fipvars, asgvars, vmvars, opvars>>
    /\ UNCHANGED othervars

PagIdle ==
    /\ alive = {}
    /\ unseenDeleted = 0
    /\ ppc = "returned"
    /\ lists = <<>>
    /\ pi = 0
    /\ prejected = {}
    /\ pcalls = 0
    /\ plastdepth = 0
    /\ pmarker = 0
    /\ prolled = FALSE
    /\ presult = <<>>

PagInit ==
    /\ alive = Items
    /\ unseenDeleted = 0
    /\ ppc = "loop"
    /\ lists = <<>>
    /\ pi = 0
    /\ prejected = {}
    /\ pcalls = 0
    /\ plastdepth = 0
    /\ pmarker = 0
    /\ prolled = FALSE
    /\ presult = <<>>

\* A listing of any collection the backend may hold.
PagQuietInit ==
    /\ alive \in SUBSET Items
    /\ unseenDeleted = 0
    /\ ppc = "loop"
    /\ lists = <<>>
    /\ pi = 0
    /\ prejected = {}
    /\ pcalls = 0
    /\ plastdepth = 0
    /\ pmarker = 0
    /\ prolled = FALSE
    /\ presult = <<>>

PagNext ==
    \/ PagFirstCall
    \/ PagMarkerCall
    \/ DeleteAccumulated
    \/ DeleteUnseen

\* ------------------------------------------------------ floating addresses
\* The last octets of the pool's addresses 10.0.0.x.
AddrOctet == <<1, 10, 2, 3, 20>>

Addrs == {AddrOctet[k] : k \in 1..NumAddrs}

\* None, where an address is expected.
NoAddr == 0

\* str(nic['addr']): the decimal digits of an octet, most significant first.
RECURSIVE Digits(_)
Digits(n) == IF n < 10 THEN <<n>> ELSE Digits(n \div 10) \o <<n % 10>>

\* Python's < on strings: lexicographic, a proper prefix first.
RECURSIVE StrLess(_, _)
StrLess(s, t) ==
    IF t = <<>> THEN FALSE
    ELSE IF s = <<>> THEN TRUE
    ELSE IF s[1] # t[1] THEN s[1] < t[1]
    ELSE StrLess(Tail(s), Tail(t))

RECURSIVE SortedNumeric(_)
SortedNumeric(S) ==
    IF S = {} THEN <<>>
    ELSE LET m == CHOOSE x \in S : \A y \in S : x <= y
         IN  <<m>> \o SortedNumeric(S \ {m})

\* sorted(..., key=lambda ip: ip.ip): ip.ip is a string.
RECURSIVE SortedByIp(_)
SortedByIp(S) ==
    IF S = {} THEN <<>>
    ELSE LET m == CHOOSE x \in S : \A y \in S \ {x} : StrLess(Digits(x), Digits(y))
         IN  <<m>> \o SortedByIp(S \ {m})

\* free_fips(pool): floating_ips.findall(fixed_ip=None, pool=pool), sorted.
free_fips(f) == SortedByIp({a \in Addrs : f[a] = "free"})

\* The ip property: the first floating address the instance reports, or None.
InstanceIp(l) == IF l = <<>> THEN NoAddr ELSE l[1]

\* l without the address a.
RECURSIVE Without(_, _)
Without(l, a) ==
    IF l = <<>> THEN <<>>
    ELSE IF l[1] = a THEN Without(Tail(l), a)
    ELSE <<l[1]>> \o Without(Tail(l), a)

\* Every order in which the addresses of S can be reported.
RECURSIVE Orderings(_)
Orderings(S) ==
    IF S = {} THEN {<<>>}
    ELSE UNION {{<<a>> \o l : l \in Orderings(S \ {a})} : a \in S}

\* What a call of assign_floating_ip has done so far.
NoFlags == [listed |-> FALSE, created |-> FALSE, createfailed |-> FALSE,
            rescanned |-> FALSE, attached |-> FALSE, early |-> FALSE,
            checked |-> FALSE]

ReuseLast(l) == l[Len(l)]

\* ip = free_ips[0]
ReuseFirst(l) == l[1]

RescanNeedsSpare(l) == Len(l) > 1

\* if free_ips: (after the failed create)
RescanHasFree(l) == l # <<>>

FinalCheckSkipped(obs, ip) == TRUE

\* assert self.ip == ip.ip
FinalCheckPasses(obs, ip) == obs = ip

HasSpareAny(l) == Len(l) > 0

\* if len(free_ips) > 1: one free address is kept as a reserve
HasSpare(l) == Len(l) > 1

\* assign_floating_ip is called: instance = self._raw
AssignCall ==
    /\ apc \in {"idle", "returned", "raised"}
    /\ apc' = "check"
    /\ afree' = <<>>
    /\ aip' = NoAddr
    /\ aobs' = NoAddr
    /\ aresult' = NoAddr
    /\ aerr' = ""
    /\ aflags' = NoFlags
    /\ UNCHANGED <<fipvars, pagvars, vmvars, opvars>>
    /\ UNCHANGED othervars

HasAddressNever(observed) == FALSE

\* if self.ip is not None
HasAddress(observed) == observed # NoAddr

\* if self.ip is not None:
AssignCheck ==
    /\ apc = "check"
    /\ aobs' = InstanceIp(inst_fips)
    /\ apc' = IF HasAddress(InstanceIp(inst_fips)) THEN "reread" ELSE "while"
    /\ UNCHANGED <<afree, aip, aresult, aerr, aflags>>
    /\ UNCHANGED <<fipvars, pagvars, vmvars, opvars>>
    /\ UNCHANGED othervars

\* return self.ip: the property is read again
AssignReturnExisting ==
    /\ apc = "reread"
    /\ aobs' = InstanceIp(inst_fips)
    /\ aresult' = InstanceIp(inst_fips)
    /\ aflags' = [aflags EXCEPT !.early = TRUE]
    /\ apc' = "returned"
    /\ UNCHANGED <<afree, aip, aerr>>
    /\ UNCHANGED <<fipvars, pagvars, vmvars, opvars>>
    /\ UNCHANGED othervars

LoopAgainNever(observed) == FALSE

\* while self.ip is None
LoopAgain(observed) == observed = NoAddr

\* while self.ip is None:
AssignWhile ==
    /\ apc = "while"
    /\ aobs' = InstanceIp(inst_fips)
    /\ apc' = IF LoopAgain(InstanceIp(inst_fips)) THEN "list" ELSE "final"
    /\ UNCHANGED <<afree, aip, aresult, aerr, aflags>>
    /\ UNCHANGED <<fipvars, pagvars, vmvars, opvars>>
    /\ UNCHANGED othervars

\* free_ips = self.system.free_fips(pool); if len(free_ips) > 1: ip = free_ips[0]
AssignList ==
    /\ apc = "list"
    /\ afree' = free_fips(fip)
    /\ aflags' = [aflags EXCEPT !.listed = TRUE, !.created = FALSE,
                                !.createfailed = FALSE, !.rescanned = FALSE,
                                !.attached = FALSE]
    /\ IF HasSpare(free_fips(fip))
       THEN /\ aip' = ReuseFirst(free_fips(fip))
            /\ apc' = "attach"
       ELSE /\ aip' = aip
            /\ apc' = "create"
    /\ UNCHANGED <<aobs, aresult, aerr>>
    /\ UNCHANGED <<fipvars, pagvars, vmvars, opvars>>
    /\ UNCHANGED othervars

\* ip = self._api.floating_ips.create(pool), or it raises (OverLimit, ...)
AssignCreate ==
    /\ apc = "create"
    /\ \/ \E a \in {x \in Addrs : fip[x] = "unalloc"} :
            /\ fip' = [fip EXCEPT ![a] = "free"]
            /\ aip' = a
            /\ aflags' = [aflags EXCEPT !.created = TRUE]
            /\ apc' = "attach"
       \/ /\ fip' = fip
          /\ aip' = aip
          /\ aflags' = [aflags EXCEPT !.created = TRUE, !.createfailed = TRUE]
          /\ apc' = "rescan"
    /\ UNCHANGED <<inst_fips, afree, aobs, aresult, aerr>>
    /\ UNCHANGED <<pagvars, vmvars, opvars>>
    /\ UNCHANGED othervars

\* except: free_ips = free_fips(pool); if free_ips: ip = free_ips[0]
\* else: raise NoMoreFloatingIPs
AssignRescan ==
    /\ apc = "rescan"
    /\ afree' = free_fips(fip)
    /\ aflags' = [aflags EXCEPT !.rescanned = TRUE]
    /\ IF RescanHasFree(free_fips(fip))
       THEN /\ aip' = ReuseFirst(free_fips(fip))
            /\ apc' = "attach"
            /\ aerr' = aerr
       ELSE /\ aip' = aip
            /\ apc' = "raised"
            /\ aerr' = "NoMoreFloatingIPs"
    /\ UNCHANGED <<aobs, aresult>>
    /\ UNCHANGED <<fipvars, pagvars, vmvars, opvars>>
    /\ UNCHANGED othervars

\* instance.add_floating_ip(ip)
\* An address that is no longer free is either moved to this instance or left
\* where it is; one that no longer exists makes the backend refuse the call.
AssignAttach ==
    /\ apc = "attach"
    /\ \E moved \in BOOLEAN :
        IF fip[aip] = "unalloc"
        THEN /\ apc' = "raised"
             /\ aerr' = "NotFound"
             /\ UNCHANGED <<fip, inst_fips>>
        ELSE /\ apc' = "sleep"
             /\ aerr' = aerr
             /\ IF fip[aip] = "free" \/ (fip[aip] = "other" /\ moved)
                THEN /\ fip' = [fip EXCEPT ![aip] = "self"]
                     /\ inst_fips' = Append(inst_fips, aip)
                ELSE UNCHANGED <<fip, inst_fips>>
    /\ aflags' = [aflags EXCEPT !.attached = TRUE]
    /\ UNCHANGED <<afree, aip, aobs, aresult>>
    /\ UNCHANGED <<pagvars, vmvars, opvars>>
    /\ UNCHANGED othervars

\* time.sleep(safety_timer): the grace period, in which the others act
AssignSleep ==
    /\ apc = "sleep"
    /\ apc' = "while"
    /\ UNCHANGED <<afree, aip, aobs, aresult, aerr, aflags>>
    /\ UNCHANGED <<fipvars, pagvars, vmvars, opvars>>
    /\ UNCHANGED othervars

\* logger.info(..., ip.ip); assert self.ip == ip.ip; return ip.ip
\* ip is unbound when the loop body never ran.
AssignFinal ==
    /\ apc = "final"
    /\ IF aip = NoAddr
       THEN /\ apc' = "raised"
            /\ aerr' = "UnboundLocalError"
            /\ UNCHANGED <<aobs, aresult, aflags>>
       ELSE /\ aobs' = InstanceIp(inst_fips)
            /\ aflags' = [aflags EXCEPT !.checked = TRUE]
            /\ IF FinalCheckPasses(InstanceIp(inst_fips), aip)
               THEN /\ apc' = "returned"
                    /\ aresult' = aip
                    /\ aerr' = aerr
               ELSE /\ apc' = "raised"
                    /\ aresult' = aresult
                    /\ aerr' = "AssertionError"
    /\ UNCHANGED <<afree, aip>>
    /\ UNCHANGED <<fipvars, pagvars, vmvars, opvars>>
    /\ UNCHANGED othervars

\* --- other users of the pool, who leave this instance and the address it is
\* --- about to attach alone
Reserved(a) == apc = "attach" /\ a = aip

\* Another actor allocates a new address: it appears free.
ExtAllocate ==
    /\ \E a \in Addrs :
        /\ fip[a] = "unalloc"
        /\ fip' = [fip EXCEPT ![a] = "free"]
    /\ UNCHANGED <<inst_fips, asgvars, pagvars, vmvars, opvars>>
    /\ UNCHANGED othervars

\* Another actor attaches a free address to an instance of its own.
ExtTake ==
    /\ \E a \in Addrs :
        /\ fip[a] = "free"
        /\ ~Reserved(a)
        /\ fip' = [fip EXCEPT ![a] = "other"]
    /\ UNCHANGED <<inst_fips, asgvars, pagvars, vmvars, opvars>>
    /\ UNCHANGED othervars

\* Another actor detaches an address from an instance of its own.
ExtRelease ==
    /\ \E a \in Addrs :
        /\ fip[a] = "other"
        /\ fip' = [fip EXCEPT ![a] = "free"]
    /\ UNCHANGED <<inst_fips, asgvars, pagvars, vmvars, opvars>>
    /\ UNCHANGED othervars

\* Another actor deletes a free address.
ExtDeallocate ==
    /\ \E a \in Addrs :
        /\ fip[a] = "free"
        /\ ~Reserved(a)
        /\ fip' = [fip EXCEPT ![a] = "unalloc"]
    /\ UNCHANGED <<inst_fips, asgvars, pagvars, vmvars, opvars>>
    /\ UNCHANGED othervars

\* --- other actors who interfere with this instance
\* Another actor attaches a free address to this instance.
ExtAttachHere ==
    /\ \E a \in Addrs :
        /\ vexists
        /\ fip[a] = "free"
        /\ fip' = [fip EXCEPT ![a] = "self"]
        /\ inst_fips' = Append(inst_fips, a)
    /\ UNCHANGED <<asgvars, pagvars, vmvars, opvars>>
    /\ UNCHANGED othervars

\* Another actor detaches an address from this instance.
ExtDetachHere ==
    /\ \E a \in Addrs :
        /\ fip[a] = "self"
        /\ fip' = [fip EXCEPT ![a] = "free"]
        /\ inst_fips' = Without(inst_fips, a)
    /\ UNCHANGED <<asgvars, pagvars, vmvars, opvars>>
    /\ UNCHANGED othervars

\* Another actor moves an address of this instance to an instance of its own.
ExtSteal ==
    /\ \E a \in Addrs :
        /\ fip[a] = "self"
        /\ fip' = [fip EXCEPT ![a] = "other"]
        /\ inst_fips' = Without(inst_fips, a)
    /\ UNCHANGED <<asgvars, pagvars, vmvars, opvars>>
    /\ UNCHANGED othervars

\* Another actor takes or deletes the address this instance is about to attach.
ExtGrabChosen ==
    /\ apc = "attach"
    /\ fip[aip] = "free"
    /\ \E to \in {"other", "unalloc"} : fip' = [fip EXCEPT ![aip] = to]
    /\ UNCHANGED <<inst_fips, asgvars, pagvars, vmvars, opvars>>
    /\ UNCHANGED othervars

FipIdle ==
    /\ fip = [a \in Addrs |-> "unalloc"]
    /\ inst_fips = <<>>

AsgIdle ==
    /\ apc = "idle"
    /\ afree = <<>>
    /\ aip = NoAddr
    /\ aobs = NoAddr
    /\ aresult = NoAddr
    /\ aerr = ""
    /\ aflags = NoFlags

\* Any pool, and any addresses already on the instance.
FipInit ==
    /\ fip \in [Addrs -> {"unalloc", "free", "self", "other"}]
    /\ inst_fips \in Orderings({a \in Addrs : fip[a] = "self"})

AssignNext ==
    \/ AssignCall
    \/ AssignCheck
    \/ AssignReturnExisting
    \/ AssignWhile
    \/ AssignList
    \/ AssignCreate
    \/ AssignRescan
    \/ AssignAttach
    \/ AssignSleep
    \/ AssignFinal

PoolNext ==
    \/ ExtAllocate
    \/ ExtTake
    \/ ExtRelease
    \/ ExtDeallocate

InterferenceNext ==
    \/ ExtAttachHere
    \/ ExtDetachHere
    \/ ExtSteal


\* ---------------------------------------------------- the instance's state
\* The statuses the backend reports.
Statuses == {"ACTIVE", "SHUTOFF", "SUSPENDED", "PAUSED", "ERROR"}

\* state_map, and the ERROR status that the state property raises on.
VmStateOf(st) ==
    CASE st = "PAUSED" -> "PAUSED"
      [] st = "ACTIVE" -> "RUNNING"
      [] st = "SHUTOFF" -> "STOPPED"
      [] st = "SUSPENDED" -> "SUSPENDED"
      [] OTHER -> "ERROR"

\* The backend's power commands: the status each needs and the one it leads to.
CmdSource(c) ==
    CASE c = "start" -> "SHUTOFF"
      [] c = "resume" -> "SUSPENDED"
      [] c = "unpause" -> "PAUSED"
      [] OTHER -> "ACTIVE"

CmdTarget(c) ==
    CASE c = "stop" -> "SHUTOFF"
      [] c = "suspend" -> "SUSPENDED"
      [] c = "pause" -> "PAUSED"
      [] OTHER -> "ACTIVE"

PowerCommands == {"start", "stop", "resume", "unpause", "suspend", "pause"}

\* The backend accepts a command on an instance at rest in the status it
\* needs, and answers Conflict otherwise.
CmdAccepted(c, st, tk) == tk = "none" /\ st = CmdSource(c)

PowerOps == {"start", "stop", "suspend", "pause"}

\* The state each method waits for: is_running, is_stopped, is_suspended, is_paused.
Target(o) ==
    CASE o = "start" -> "RUNNING"
      [] o = "stop" -> "STOPPED"
      [] o = "suspend" -> "SUSPENDED"
      [] OTHER -> "PAUSED"

\* is_running, is_stopped, is_suspended, is_paused: self.state == VmState.X
IsState(observed, wanted) == observed = wanted

AlreadyThereNever(observed, wanted) == FALSE

\* if self.is_running: return True (and the like in stop, suspend, pause)
AlreadyThere(observed, wanted) == IsState(observed, wanted)

CommandIfSuspendedWrong == "start"

\* if self.is_suspended: instance.resume()
CommandIfSuspended == "resume"

\* elif self.is_paused: instance.unpause()
CommandIfPaused == "unpause"

\* else: instance.start()
CommandOtherwise == "start"

\* self._raw.stop(), self._raw.suspend(), self._raw.pause()
CommandOf(o) == o

RestartOrderSwapped == <<"start", "stop">>

\* return self.stop() and self.start()
RestartOrder == <<"stop", "start">>

\* start and stop end in `return True`; suspend and pause fall off their end
\* after the wait.
ValueAfterWait(o) == IF o \in {"start", "stop"} THEN "True" ELSE "None"

NoFrame == [delete_fip |-> FALSE, ip_addr |-> NoAddr, floating_ip |-> NoAddr,
            unassign |-> "pending", nullseen |-> FALSE, absent |-> FALSE]

NoOpFlags == [phase |-> 0, seen |-> {}]

\* A method of the instance is called: the frame is fresh.
EnterCall(o, by) ==
    /\ opc \in {"idle", "done", "raised"}
    /\ op' = o
    /\ outer' = by
    /\ ocmd' = "none"
    /\ oreads' = <<>>
    /\ cmds' = <<>>
    /\ ores' = ""
    /\ oerr' = ""

\* start(), stop(), suspend() or pause() is called.
PowerCall ==
    /\ \E o \in PowerOps : EnterCall(o, "none")
    /\ opc' = "check"
    /\ oflags' = NoOpFlags
    /\ dframe' = NoFrame
    /\ UNCHANGED <<vmvars, pagvars, fipvars, asgvars>>
    /\ UNCHANGED othervars

\* restart() is called: self.stop() runs first.
RestartCall ==
    /\ EnterCall(RestartOrder[1], "restart")
    /\ opc' = "check"
    /\ oflags' = [phase |-> 1, seen |-> {}]
    /\ dframe' = NoFrame
    /\ UNCHANGED <<vmvars, pagvars, fipvars, asgvars>>
    /\ UNCHANGED othervars

\* The method raises; restart does not catch.
Raise(e) ==
    /\ opc' = "raised"
    /\ oerr' = e
    /\ UNCHANGED <<op, outer, ocmd, cmds, ores, oflags, dframe>>

\* The method returns val having observed its target state. Inside restart,
\* `self.stop() and self.start()` goes on to the second call when the first
\* returned a true value.
Return(val, reads) ==
    IF outer = "restart" /\ oflags.phase = 1 /\ val = "True"
    THEN /\ op' = RestartOrder[2]
         /\ opc' = "check"
         /\ ocmd' = "none"
         /\ oreads' = <<>>
         /\ oflags' = [phase |-> 2, seen |-> oflags.seen \cup {Target(op)}]
         /\ UNCHANGED <<outer, cmds, ores, oerr, dframe>>
    ELSE /\ opc' = "done"
         /\ ores' = val
         /\ oflags' = [oflags EXCEPT !.seen = oflags.seen \cup {Target(op)}]
         /\ oreads' = reads
         /\ UNCHANGED <<op, outer, ocmd, cmds, oerr, dframe>>

\* The first read of the state property: in the target state already the
\* method returns True; start goes on to its next test, the others choose
\* their command.
PowerCheck ==
    /\ op \in PowerOps
    /\ opc = "check"
    /\ LET observed == VmStateOf(status)
       IN  IF observed = "ERROR"
           THEN Raise("VMError") /\ oreads' = Append(oreads, observed)
           ELSE IF AlreadyThere(observed, Target(op))
           THEN Return("True", Append(oreads, observed))
           ELSE /\ oreads' = Append(oreads, observed)
                /\ opc' = IF op = "start" THEN "suspended" ELSE "issue"
                /\ ocmd' = IF op = "start" THEN "none" ELSE CommandOf(op)
                /\ UNCHANGED <<op, outer, cmds, ores, oerr, oflags, dframe>>
    /\ UNCHANGED <<vmvars, pagvars, fipvars, asgvars>>
    /\ UNCHANGED othervars

\* start: if self.is_suspended: instance.resume()
StartSuspended ==
    /\ op = "start"
    /\ opc = "suspended"
    /\ LET observed == VmStateOf(status)
       IN  /\ oreads' = Append(oreads, observed)
           /\ IF observed = "ERROR"
              THEN Raise("VMError")
              ELSE /\ opc' = IF IsState(observed, "SUSPENDED") THEN "issue" ELSE "paused"
                   /\ ocmd' = IF IsState(observed, "SUSPENDED")
                              THEN CommandIfSuspended ELSE "none"
                   /\ UNCHANGED <<op, outer, cmds, ores, oerr, oflags, dframe>>
    /\ UNCHANGED <<vmvars, pagvars, fipvars, asgvars>>
    /\ UNCHANGED othervars

\* start: elif self.is_paused: instance.unpause() else: instance.start()
StartPaused ==
    /\ op = "start"
    /\ opc = "paused"
    /\ LET observed == VmStateOf(status)
       IN  /\ oreads' = Append(oreads, observed)
           /\ IF observed = "ERROR"
              THEN Raise("VMError")
              ELSE /\ opc' = "issue"
                   /\ ocmd' = IF IsState(observed, "PAUSED")
                              THEN CommandIfPaused ELSE CommandOtherwise
                   /\ UNCHANGED <<op, outer, cmds, ores, oerr, oflags, dframe>>
    /\ UNCHANGED <<vmvars, pagvars, fipvars, asgvars>>
    /\ UNCHANGED othervars

\* The chosen command reaches the backend.
PowerIssue ==
    /\ op \in PowerOps
    /\ opc = "issue"
    /\ cmds' = Append(cmds, [c |-> ocmd, at |-> status])
    /\ IF CmdAccepted(ocmd, status, task)
       THEN /\ task' = CmdTarget(ocmd)
            /\ opc' = "wait"
            /\ oerr' = oerr
       ELSE /\ task' = task
            /\ opc' = "raised"
            /\ oerr' = "Conflict"
    /\ UNCHANGED <<op, outer, ocmd, oreads, ores, oflags, dframe>>
    /\ UNCHANGED <<status, vexists, vdeleting, pagvars, fipvars, asgvars>>
    /\ UNCHANGED othervars

WaitSatisfiedOnAcceptance(observed, wanted) == TRUE

\* wait_for(self.is_running, ...) ends when the polled property is true
WaitSatisfied(observed, wanted) == IsState(observed, wanted)

\* wait_for(self.is_running, ...): a poll that sees the target state ends the
\* wait, one that sees ERROR raises out of it; any other poll changes nothing.
PowerWait ==
    /\ op \in PowerOps
    /\ opc = "wait"
    /\ LET observed == VmStateOf(status)
       IN  /\ (observed = "ERROR" \/ WaitSatisfied(observed, Target(op)))
           /\ IF observed = "ERROR"
              THEN Raise("VMError") /\ oreads' = oreads
              ELSE Return(ValueAfterWait(op), oreads)
    /\ UNCHANGED <<vmvars, pagvars, fipvars, asgvars>>
    /\ UNCHANGED othervars

WaitNeverExpires(observed, wanted) == FALSE

\* wait_for(self.is_running, message=...): no num_sec or timeout is passed, the
\* wait is bounded by wait_for's own default and expires while the state
\* polled is not the one waited for.
WaitExpires(observed, wanted) == ~IsState(observed, wanted)

\* wait_for gives up: TimedOutError.
PowerTimeout ==
    /\ op \in PowerOps
    /\ opc = "wait"
    /\ WaitExpires(VmStateOf(status), Target(op))
    /\ Raise("TimedOutError")
    /\ oreads' = oreads
    /\ UNCHANGED <<vmvars, pagvars, fipvars, asgvars>>
    /\ UNCHANGED othervars

\* Another actor sends a power command the backend accepts.
ExtCommand ==
    /\ \E c \in PowerCommands :
        /\ CmdAccepted(c, status, task)
        /\ task' = CmdTarget(c)
    /\ UNCHANGED <<status, vexists, vdeleting, opvars, pagvars, fipvars, asgvars>>
    /\ UNCHANGED othervars

\* The backend completes the accepted command.
BackendFinish ==
    /\ task # "none"
    /\ status' = task
    /\ task' = "none"
    /\ UNCHANGED <<vexists, vdeleting, opvars, pagvars, fipvars, asgvars>>
    /\ UNCHANGED othervars

\* The backend fails the accepted command: the instance goes to ERROR.
BackendFault ==
    /\ task # "none"
    /\ status' = "ERROR"
    /\ task' = "none"
    /\ UNCHANGED <<vexists, vdeleting, opvars, pagvars, fipvars, asgvars>>
    /\ UNCHANGED othervars

VmIdle ==
    /\ status = "ACTIVE"
    /\ task = "none"
    /\ vexists = TRUE
    /\ vdeleting = FALSE

OpIdle ==
    /\ op = "none"
    /\ outer = "none"
    /\ opc = "idle"
    /\ ocmd = "none"
    /\ oreads = <<>>
    /\ cmds = <<>>
    /\ ores = ""
    /\ oerr = ""
    /\ oflags = NoOpFlags
    /\ dframe = NoFrame

VmInit ==
    /\ status \in Statuses
    /\ task = "none"
    /\ vexists = TRUE
    /\ vdeleting = FALSE

PowerNext ==
    \/ PowerCall
    \/ RestartCall
    \/ PowerCheck
    \/ StartSuspended
    \/ StartPaused
    \/ PowerIssue
    \/ PowerWait
    \/ PowerTimeout

BackendNext ==
    \/ ExtCommand
    \/ BackendFinish
    \/ BackendFault

\* ------------------------------------------- delete, unassign_floating_ip
DetachedWhenAnything(obs) == TRUE

\* wait_for(lambda: self.ip is None, delay=1, timeout='1m')
DetachedWhen(obs) == obs = NoAddr

\* The exists property: _get_myself() finds the instance.
Exists == vexists

\* delete(delete_fip) is called; self.name reads the instance first.
DeleteCall ==
    /\ \E df \in BOOLEAN :
        /\ EnterCall("delete", "none")
        /\ dframe' = [NoFrame EXCEPT !.delete_fip = df]
    /\ opc' = "u_read"
    /\ oflags' = NoOpFlags
    /\ UNCHANGED <<vmvars, pagvars, fipvars, asgvars>>
    /\ UNCHANGED othervars

\* unassign_floating_ip: ip_addr = self.ip; if ip_addr is None: return None
\* (delete_floating_ip(None) then returns False at once).
UnassignRead ==
    /\ op = "delete"
    /\ opc = "u_read"
    /\ IF ~Exists
       THEN Raise("VMInstanceNotFound")
       ELSE /\ IF InstanceIp(inst_fips) = NoAddr
               THEN /\ dframe' = [dframe EXCEPT !.unassign = "no_ip"]
                    /\ opc' = "d_delete"
               ELSE /\ dframe' = [dframe EXCEPT !.ip_addr = InstanceIp(inst_fips)]
                    /\ opc' = "u_find"
            /\ UNCHANGED <<op, outer, ocmd, cmds, ores, oerr, oflags>>
    /\ UNCHANGED <<oreads, vmvars, pagvars, fipvars, asgvars>>
    /\ UNCHANGED othervars

NoFipListedNever(st) == FALSE

\* if not floating_ips: findall(ip=ip_addr) found no floating IP
NoFipListed(st) == st = "unalloc"

\* floating_ips = self._api.floating_ips.findall(ip=ip_addr)
\* if not floating_ips: return None
UnassignFind ==
    /\ op = "delete"
    /\ opc = "u_find"
    /\ IF NoFipListed(fip[dframe.ip_addr])
       THEN /\ dframe' = [dframe EXCEPT !.unassign = "no_fip"]
            /\ opc' = "d_delete"
       ELSE /\ dframe' = [dframe EXCEPT !.floating_ip = dframe.ip_addr]
            /\ opc' = "u_detach"
    /\ UNCHANGED <<op, outer, ocmd, oreads, cmds, ores, oerr, oflags>>
    /\ UNCHANGED <<vmvars, pagvars, fipvars, asgvars>>
    /\ UNCHANGED othervars

\* instance.remove_floating_ip(floating_ip). An address that has left the
\* instance meanwhile is either refused by the backend or ignored.
UnassignDetach ==
    /\ op = "delete"
    /\ opc = "u_detach"
    /\ cmds' = Append(cmds, [c |-> "remove_floating_ip", at |-> status])
    /\ \E refused \in BOOLEAN :
        IF fip[dframe.floating_ip] = "self"
        THEN /\ fip' = [fip EXCEPT ![dframe.floating_ip] = "free"]
             /\ inst_fips' = Without(inst_fips, dframe.floating_ip)
             /\ opc' = "u_wait"
             /\ oerr' = oerr
        ELSE /\ UNCHANGED <<fip, inst_fips>>
             /\ opc' = IF refused THEN "raised" ELSE "u_wait"
             /\ oerr' = IF refused THEN "BadRequest" ELSE oerr
    /\ UNCHANGED <<op, outer, ocmd, oreads, ores, oflags, dframe>>
    /\ UNCHANGED <<vmvars, pagvars, asgvars>>
    /\ UNCHANGED othervars

DeletesFipAlways(delete_fip) == TRUE

\* if delete_fip: self.system.delete_floating_ip(self.unassign_floating_ip())
DeletesFip(delete_fip) == delete_fip

\* wait_for(lambda: self.ip is None): the poll that ends the wait; then
\* return floating_ip, and delete goes on to the address or to the instance.
UnassignWait ==
    /\ op = "delete"
    /\ opc = "u_wait"
    /\ ~Exists \/ DetachedWhen(InstanceIp(inst_fips))
    /\ IF ~Exists
       THEN Raise("VMInstanceNotFound")
       ELSE /\ dframe' = [dframe EXCEPT !.unassign = "detached",
                                        !.nullseen = (InstanceIp(inst_fips) = NoAddr)]
            /\ opc' = IF DeletesFip(dframe.delete_fip) THEN "f_delete" ELSE "d_delete"
            /\ UNCHANGED <<op, outer, ocmd, cmds, ores, oerr, oflags>>
    /\ UNCHANGED <<oreads, vmvars, pagvars, fipvars, asgvars>>
    /\ UNCHANGED othervars

\* That wait_for gives up after its minute.
UnassignTimeout ==
    /\ op = "delete"
    /\ opc = "u_wait"
    /\ Exists
    /\ ~DetachedWhen(InstanceIp(inst_fips))
    /\ Raise("TimedOutError")
    /\ UNCHANGED <<oreads, vmvars, pagvars, fipvars, asgvars>>
    /\ UNCHANGED othervars

\* delete_floating_ip(floating_ip): floating_ip.delete()
FipDelete ==
    /\ op = "delete"
    /\ opc = "f_delete"
    /\ cmds' = Append(cmds, [c |-> "floating_ip.delete", at |-> status])
    /\ IF fip[dframe.floating_ip] = "unalloc"
       THEN /\ opc' = "raised"
            /\ oerr' = "NotFound"
            /\ UNCHANGED <<fip, inst_fips>>
       ELSE /\ fip' = [fip EXCEPT ![dframe.floating_ip] = "unalloc"]
            /\ inst_fips' = Without(inst_fips, dframe.floating_ip)
            /\ opc' = "f_wait"
            /\ oerr' = oerr
    /\ UNCHANGED <<op, outer, ocmd, oreads, ores, oflags, dframe>>
    /\ UNCHANGED <<vmvars, pagvars, asgvars>>
    /\ UNCHANGED othervars

\* wait_for(lambda: len(findall(ip=floating_ip.ip)) == 0): the poll that ends it.
FipWait ==
    /\ op = "delete"
    /\ opc = "f_wait"
    /\ fip[dframe.floating_ip] = "unalloc"
    /\ opc' = "d_delete"
    /\ UNCHANGED <<op, outer, ocmd, oreads, cmds, ores, oerr, oflags, dframe>>
    /\ UNCHANGED <<vmvars, pagvars, fipvars, asgvars>>
    /\ UNCHANGED othervars

\* That wait_for gives up after its minute.
FipTimeout ==
    /\ op = "delete"
    /\ opc = "f_wait"
    /\ fip[dframe.floating_ip] # "unalloc"
    /\ Raise("TimedOutError")
    /\ UNCHANGED <<oreads, vmvars, pagvars, fipvars, asgvars>>
    /\ UNCHANGED othervars

\* self.name reads the instance again; self._raw.delete()
InstanceDelete ==
    /\ op = "delete"
    /\ opc = "d_delete"
    /\ IF ~Exists
       THEN /\ Raise("VMInstanceNotFound")
            /\ UNCHANGED vdeleting
       ELSE /\ cmds' = Append(cmds, [c |-> "delete", at |-> status])
            /\ vdeleting' = TRUE
            /\ opc' = "d_wait"
            /\ UNCHANGED <<op, outer, ocmd, ores, oerr, oflags, dframe>>
    /\ UNCHANGED <<oreads, status, task, vexists, pagvars, fipvars, asgvars>>
    /\ UNCHANGED othervars

\* wait_for(lambda: not self.exists, timeout='3m', delay=5); return True
DeleteWait ==
    /\ op = "delete"
    /\ opc = "d_wait"
    /\ ~Exists
    /\ dframe' = [dframe EXCEPT !.absent = TRUE]
    /\ opc' = "done"
    /\ ores' = "True"
    /\ UNCHANGED <<op, outer, ocmd, oreads, cmds, oerr, oflags>>
    /\ UNCHANGED <<vmvars, pagvars, fipvars, asgvars>>
    /\ UNCHANGED othervars

\* That wait_for gives up after its three minutes.
DeleteTimeout ==
    /\ op = "delete"
    /\ opc = "d_wait"
    /\ Exists
    /\ Raise("TimedOutError")
    /\ UNCHANGED <<oreads, vmvars, pagvars, fipvars, asgvars>>
    /\ UNCHANGED othervars

\* The backend carries out an accepted delete: the instance is gone and its
\* floating addresses are free again.
BackendDeleteDone ==
    /\ vexists
    /\ vdeleting
    /\ vexists' = FALSE
    /\ vdeleting' = FALSE
    /\ fip' = [a \in Addrs |-> IF fip[a] = "self" THEN "free" ELSE fip[a]]
    /\ inst_fips' = <<>>
    /\ UNCHANGED <<status, task, opvars, pagvars, asgvars>>
    /\ UNCHANGED othervars

\* Another actor deletes the instance.
ExtDeleteVm ==
    /\ vexists
    /\ ~vdeleting
    /\ vdeleting' = TRUE
    /\ UNCHANGED <<status, task, vexists, opvars, pagvars, fipvars, asgvars>>
    /\ UNCHANGED othervars

DeleteNext ==
    \/ DeleteCall
    \/ UnassignRead
    \/ UnassignFind
    \/ UnassignDetach
    \/ UnassignWait
    \/ UnassignTimeout
    \/ FipDelete
    \/ FipWait
    \/ FipTimeout
    \/ InstanceDelete
    \/ DeleteWait
    \/ DeleteTimeout

VmGoneNext ==
    \/ BackendDeleteDone
    \/ ExtDeleteVm


\* ------------------------------------------- OpenstackSystem.delete_floating_ip
\* The backend lists a floating IP for address a.
Listed(a) == a # NoAddr /\ fip[a] # "unalloc"

\* The address is on some instance.
Attached(a) == a # NoAddr /\ fip[a] \in {"self", "other"}

ReleaseCommandsDetaching(attached) ==
    IF attached THEN <<"remove_floating_ip", "floating_ip.delete">>
    ELSE <<"floating_ip.delete">>

\* What delete_floating_ip sends to the backend for the object it holds:
\* floating_ip.delete(), whether or not the address is on an instance.
ReleaseCommands(attached) == <<"floating_ip.delete">>

\* The arguments a caller can pass: None, a raw address, or a FloatingIP object
\* it got earlier (whose address the backend may have dropped since).
ReleaseArgs ==
    {[form |-> "none", addr |-> NoAddr]}
        \cup {[form |-> f, addr |-> a] : f \in {"raw", "object"}, a \in Addrs}

ReleaseBegin(arg, round) ==
    /\ rform' = arg.form
    /\ raddr' = arg.addr
    /\ rlisted' = Listed(arg.addr)
    /\ rround' = round
    /\ rcmds' = <<>>
    /\ rseen' = FALSE
    /\ rres' = ""
    /\ rerr' = ""
    /\ rpc' = "check"

\* delete_floating_ip(floating_ip) is called.
ReleaseCall ==
    /\ rpc = "idle"
    /\ \E arg \in ReleaseArgs : ReleaseBegin(arg, 1)
    /\ UNCHANGED <<pagvars, fipvars, asgvars, vmvars, opvars>>
    /\ UNCHANGED besideRelease

\* The caller releases the same argument again, right after the first call ended.
ReleaseAgain ==
    /\ rpc \in {"returned", "raised"}
    /\ rround = 1
    /\ ReleaseBegin([form |-> rform, addr |-> raddr], 2)
    /\ UNCHANGED <<pagvars, fipvars, asgvars, vmvars, opvars>>
    /\ UNCHANGED besideRelease

\* if floating_ip is None: return False
\* if not isinstance(floating_ip, FloatingIP): the lookup follows
ReleaseCheck ==
    /\ rpc = "check"
    /\ IF rform = "none"
       THEN /\ rpc' = "returned"
            /\ rres' = "False"
       ELSE /\ rpc' = IF rform = "raw" THEN "lookup" ELSE "delete"
            /\ rres' = rres
    /\ UNCHANGED <<rform, raddr, rlisted, rround, rcmds, rseen, rerr>>
    /\ UNCHANGED <<pagvars, fipvars, asgvars, vmvars, opvars>>
    /\ UNCHANGED besideRelease

\* floating_ip = findall(ip=floating_ip); if not floating_ip: return False
ReleaseLookup ==
    /\ rpc = "lookup"
    /\ IF Listed(raddr)
       THEN /\ rpc' = "delete"
            /\ UNCHANGED <<rres, rseen>>
       ELSE /\ rpc' = "returned"
            /\ rres' = "False"
            /\ rseen' = TRUE
    /\ UNCHANGED <<rform, raddr, rlisted, rround, rcmds, rerr>>
    /\ UNCHANGED <<pagvars, fipvars, asgvars, vmvars, opvars>>
    /\ UNCHANGED besideRelease

\* floating_ip.delete(): the backend drops the address, from its instance too;
\* it answers NotFound for an address it no longer holds.
ReleaseDelete ==
    /\ rpc = "delete"
    /\ rcmds' = rcmds \o [k \in 1..Len(ReleaseCommands(Attached(raddr))) |->
                            [c |-> ReleaseCommands(Attached(raddr))[k],
                             attached |-> Attached(raddr)]]
    /\ IF Listed(raddr)
       THEN /\ fip' = [fip EXCEPT ![raddr] = "unalloc"]
            /\ inst_fips' = Without(inst_fips, raddr)
            /\ rpc' = "wait"
            /\ rerr' = rerr
       ELSE /\ rpc' = "raised"
            /\ rerr' = "NotFound"
            /\ UNCHANGED <<fip, inst_fips>>
    /\ UNCHANGED <<rform, raddr, rlisted, rround, rseen, rres>>
    /\ UNCHANGED <<pagvars, asgvars, vmvars, opvars>>
    /\ UNCHANGED besideRelease

\* wait_for(lambda: len(findall(ip=floating_ip.ip)) == 0, timeout='1m'); return True
ReleaseWait ==
    /\ rpc = "wait"
    /\ ~Listed(raddr)
    /\ rseen' = TRUE
    /\ rpc' = "returned"
    /\ rres' = "True"
    /\ UNCHANGED <<rform, raddr, rlisted, rround, rcmds, rerr>>
    /\ UNCHANGED <<pagvars, fipvars, asgvars, vmvars, opvars>>
    /\ UNCHANGED besideRelease

\* That wait_for gives up after its minute: the address is listed still (again).
ReleaseTimeout ==
    /\ rpc = "wait"
    /\ Listed(raddr)
    /\ rpc' = "raised"
    /\ rerr' = "TimedOutError"
    /\ UNCHANGED <<rform, raddr, rlisted, rround, rcmds, rseen, rres>>
    /\ UNCHANGED <<pagvars, fipvars, asgvars, vmvars, opvars>>
    /\ UNCHANGED besideRelease

RelIdle ==
    /\ rpc = "idle"
    /\ rform = "none"
    /\ raddr = NoAddr
    /\ rlisted = FALSE
    /\ rround = 1
    /\ rcmds = <<>>
    /\ rseen = FALSE
    /\ rres = ""
    /\ rerr = ""

ReleaseNext ==
    \/ ReleaseCall
    \/ ReleaseAgain
    \/ ReleaseCheck
    \/ ReleaseLookup
    \/ ReleaseDelete
    \/ ReleaseWait
    \/ ReleaseTimeout

\* ------------------------------------------ OpenstackInstance.mark_as_template
\* The names instances carry before the call.
Names == {"web", "db"}

\* copy_name = original_name + "_copytemplate"
CopyName(n) == n \o "_copytemplate"

\* wait_for_steady_state: the states in which no transition is under way.
InSteadyState(observed) ==
    observed \in {"RUNNING", "STOPPED", "SUSPENDED", "PAUSED"}

RollbackNameKept(orig, copy) == copy

\* self.rename(original_name)  # Clean up after ourselves
RollbackName(orig, copy) == orig

\* uuid = self._raw.create_image(original_name)
SnapshotName(orig, copy) == orig

\* wait_for(lambda: self._api.images.get(uuid).status == "ACTIVE", ...)
ImageReady(st) == st = "ACTIVE"

StopSkipped(observed) == TRUE

\* if not self.is_stopped: self.stop()
StopNotNeeded(observed) == IsState(observed, "STOPPED")

\* The bare `raise` that ends the handler, after the inner try whose own
\* handler caught the rename's failure: Python 3 restores the exception being
\* handled and re-raises the step's failure; Python 2, which the module is
\* written for, re-raises the exception raised last, the rename's.
ReRaised(step, renameErr) ==
    {[e |-> step, from |-> "step"], [e |-> renameErr, from |-> "rename"]}

\* A step inside the try block fails: control goes to the handler.
Fail(e) ==
    /\ tprimary' = e
    /\ tpc' = "rollback"
    /\ UNCHANGED <<torig, trollback, terr, tfrom, tres>>

\* mark_as_template() is called: original_name = self.name reads the instance.
TplCall ==
    /\ tpc = "idle"
    /\ opc \in {"idle", "done", "raised"}
    /\ IF ~Exists
       THEN /\ tpc' = "raised"
            /\ terr' = "VMInstanceNotFound"
            /\ tfrom' = "entry"
            /\ torig' = torig
       ELSE /\ tpc' = "rename"
            /\ torig' = vname
            /\ UNCHANGED <<terr, tfrom>>
    /\ UNCHANGED <<vname, image, imgname, tlog, tprimary, trollback, tres>>
    /\ UNCHANGED <<pagvars, fipvars, asgvars, vmvars, opvars, besideTemplate>>

\* self.rename(copy_name), before the try block.
TplRename ==
    /\ tpc = "rename"
    /\ IF ~Exists
       THEN /\ tpc' = "raised"
            /\ terr' = "NotFound"
            /\ tfrom' = "entry"
            /\ UNCHANGED <<vname, tlog>>
       ELSE /\ tpc' = "steady"
            /\ vname' = CopyName(torig)
            /\ tlog' = Append(tlog, <<"rename", CopyName(torig)>>)
            /\ UNCHANGED <<terr, tfrom>>
    /\ UNCHANGED <<image, imgname, torig, tprimary, trollback, tres>>
    /\ UNCHANGED <<pagvars, fipvars, asgvars, vmvars, opvars, besideTemplate>>

\* self.wait_for_steady_state(): the state property raises on ERROR.
TplSteady ==
    /\ tpc = "steady"
    /\ IF ~Exists
       THEN Fail("VMInstanceNotFound")
       ELSE IF ~InSteadyState(VmStateOf(status))
       THEN Fail("VMError")
       ELSE /\ tpc' = "is_stopped"
            /\ UNCHANGED <<torig, tprimary, trollback, terr, tfrom, tres>>
    /\ UNCHANGED <<vname, image, imgname, tlog>>
    /\ UNCHANGED <<pagvars, fipvars, asgvars, vmvars, opvars, besideTemplate>>

\* if not self.is_stopped: self.stop()  -- the read, and the call of stop()
TplIsStopped ==
    /\ tpc = "is_stopped"
    /\ LET observed == VmStateOf(status)
       IN  IF ~Exists \/ observed = "ERROR"
           THEN /\ Fail(IF ~Exists THEN "VMInstanceNotFound" ELSE "VMError")
                /\ UNCHANGED <<tlog, opvars>>
           ELSE IF StopNotNeeded(observed)
           THEN /\ tpc' = "snapshot"
                /\ tlog' = Append(tlog, <<"state", observed>>)
                /\ UNCHANGED <<torig, tprimary, trollback, terr, tfrom, tres>>
                /\ UNCHANGED opvars
           ELSE /\ tpc' = "stopping"
                /\ EnterCall("stop", "mark_as_template")
                /\ opc' = "check"
                /\ oflags' = NoOpFlags
                /\ dframe' = NoFrame
                /\ UNCHANGED <<tlog, torig, tprimary, trollback, terr, tfrom, tres>>
    /\ UNCHANGED <<vname, image, imgname>>
    /\ UNCHANGED <<pagvars, fipvars, asgvars, vmvars, besideTemplate>>

\* stop() is over: it returned, which it does only from a read of STOPPED, or
\* it raised.
TplAfterStop ==
    /\ tpc = "stopping"
    /\ op = "stop"
    /\ opc \in {"done", "raised"}
    /\ IF opc = "raised"
       THEN Fail(oerr) /\ tlog' = tlog
       ELSE /\ tpc' = "snapshot"
            /\ tlog' = Append(tlog, <<"state", Target(op)>>)
            /\ UNCHANGED <<torig, tprimary, trollback, terr, tfrom, tres>>
    /\ UNCHANGED <<vname, image, imgname>>
    /\ UNCHANGED <<pagvars, fipvars, asgvars, vmvars, opvars, besideTemplate>>

\* uuid = self._raw.create_image(original_name): the backend starts saving the
\* image, or refuses.
TplSnapshot ==
    /\ tpc = "snapshot"
    /\ IF ~Exists
       THEN Fail("NotFound") /\ UNCHANGED <<image, imgname, tlog>>
       ELSE \E accepted \in BOOLEAN :
               IF accepted
               THEN /\ image' = "SAVING"
                    /\ imgname' = SnapshotName(torig, CopyName(torig))
                    /\ tlog' = Append(tlog,
                                 <<"snapshot", SnapshotName(torig, CopyName(torig))>>)
                    /\ tpc' = "image_wait"
                    /\ UNCHANGED <<torig, tprimary, trollback, terr, tfrom, tres>>
               ELSE Fail("Conflict") /\ UNCHANGED <<image, imgname, tlog>>
    /\ UNCHANGED vname
    /\ UNCHANGED <<pagvars, fipvars, asgvars, vmvars, opvars, besideTemplate>>

\* The poll of the image's status that ends the wait.
TplImageWait ==
    /\ tpc = "image_wait"
    /\ ImageReady(image)
    /\ tlog' = Append(tlog, <<"image", image>>)
    /\ tpc' = "delete"
    /\ UNCHANGED <<vname, image, imgname, torig, tprimary, trollback, terr, tfrom, tres>>
    /\ UNCHANGED <<pagvars, fipvars, asgvars, vmvars, opvars, besideTemplate>>

\* That wait_for gives up after its 900 seconds.
TplImageTimeout ==
    /\ tpc = "image_wait"
    /\ ~ImageReady(image)
    /\ Fail("TimedOutError")
    /\ UNCHANGED <<vname, image, imgname, tlog>>
    /\ UNCHANGED <<pagvars, fipvars, asgvars, vmvars, opvars, besideTemplate>>

\* self.delete() is called.
TplDelete ==
    /\ tpc = "delete"
    /\ EnterCall("delete", "mark_as_template")
    /\ opc' = "u_read"
    /\ oflags' = NoOpFlags
    /\ dframe' = NoFrame
    /\ tpc' = "deleting"
    /\ UNCHANGED <<vname, image, imgname, torig, tlog, tprimary, trollback, terr,
                   tfrom, tres>>
    /\ UNCHANGED <<pagvars, fipvars, asgvars, vmvars, besideTemplate>>

\* delete() is over.
TplAfterDelete ==
    /\ tpc = "deleting"
    /\ op = "delete"
    /\ opc \in {"done", "raised"}
    /\ IF opc = "raised"
       THEN Fail(oerr)
       ELSE /\ tpc' = "gone_wait"
            /\ UNCHANGED <<torig, tprimary, trollback, terr, tfrom, tres>>
    /\ UNCHANGED <<vname, image, imgname, tlog>>
    /\ UNCHANGED <<pagvars, fipvars, asgvars, vmvars, opvars, besideTemplate>>

\* wait_for(lambda: not self.exists, num_sec=180, delay=5)
\* return OpenstackImage(system=self.system, id=uuid)
TplGone ==
    /\ tpc = "gone_wait"
    /\ IF Exists
       THEN Fail("TimedOutError")
       ELSE /\ tpc' = "returned"
            /\ tres' = "image"
            /\ UNCHANGED <<torig, tprimary, trollback, terr, tfrom>>
    /\ UNCHANGED <<vname, image, imgname, tlog>>
    /\ UNCHANGED <<pagvars, fipvars, asgvars, vmvars, opvars, besideTemplate>>

\* except Exception: self.rename(original_name) inside its own try, then raise.
TplRollback ==
    /\ tpc = "rollback"
    /\ tlog' = Append(tlog, <<"rename", RollbackName(torig, CopyName(torig))>>)
    /\ IF Exists
       THEN /\ vname' = RollbackName(torig, CopyName(torig))
            /\ trollback' = "ok"
            /\ terr' = tprimary
            /\ tfrom' = "step"
       ELSE /\ vname' = vname
            /\ trollback' = "failed"
            /\ \E r \in ReRaised(tprimary, "NotFound") :
                /\ terr' = r.e
                /\ tfrom' = r.from
    /\ tpc' = "raised"
    /\ UNCHANGED <<image, imgname, torig, tprimary, tres>>
    /\ UNCHANGED <<pagvars, fipvars, asgvars, vmvars, opvars, besideTemplate>>

\* The backend finishes saving the image.
ImageFinish ==
    /\ image = "SAVING"
    /\ image' = "ACTIVE"
    /\ UNCHANGED <<vname, imgname, tpc, torig, tlog, tprimary, trollback, terr,
                   tfrom, tres>>
    /\ UNCHANGED <<pagvars, fipvars, asgvars, vmvars, opvars, besideTemplate>>

\* The backend fails to save it.
ImageFail ==
    /\ image = "SAVING"
    /\ image' = "KILLED"
    /\ UNCHANGED <<vname, imgname, tpc, torig, tlog, tprimary, trollback, terr,
                   tfrom, tres>>
    /\ UNCHANGED <<pagvars, fipvars, asgvars, vmvars, opvars, besideTemplate>>

TplIdle ==
    /\ vname = "web"
    /\ image = "none"
    /\ imgname = ""
    /\ tpc = "idle"
    /\ torig = ""
    /\ tlog = <<>>
    /\ tprimary = ""
    /\ trollback = "none"
    /\ terr = ""
    /\ tfrom = ""
    /\ tres = ""

\* An instance of any name, before any snapshot.
TplInit ==
    /\ vname \in Names
    /\ image = "none"
    /\ imgname = ""
    /\ tpc = "idle"
    /\ torig = ""
    /\ tlog = <<>>
    /\ tprimary = ""
    /\ trollback = "none"
    /\ terr = ""
    /\ tfrom = ""
    /\ tres = ""

TemplateNext ==
    \/ TplCall
    \/ TplRename
    \/ TplSteady
    \/ TplIsStopped
    \/ TplAfterStop
    \/ TplSnapshot
    \/ TplImageWait
    \/ TplImageTimeout
    \/ TplDelete
    \/ TplAfterDelete
    \/ TplGone
    \/ TplRollback

\* What mark_as_template runs of stop() and delete(), and the backend's part.
TemplateCalleesNext ==
    \/ PowerCheck
    \/ PowerIssue
    \/ PowerWait
    \/ PowerTimeout
    \/ UnassignRead
    \/ UnassignFind
    \/ UnassignDetach
    \/ UnassignWait
    \/ UnassignTimeout
    \/ InstanceDelete
    \/ DeleteWait
    \/ DeleteTimeout

TemplateBackendNext ==
    \/ ExtCommand
    \/ BackendFinish
    \/ BackendFault
    \/ BackendDeleteDone
    \/ ImageFinish
    \/ ImageFail

\* ------------------------------------------------------ OpenstackImage.deploy
\* A flavor's name.  '{}-{}M-{}C'.format(flavor.name, ram, cpu), and that with
\* '_{}'.format(counter) appended, are the names of override flavors; a plain
\* name has ram, cpu and n 0.
PlainName(s) == [base |-> s, ram |-> 0, cpu |-> 0, n |-> 0]

OverrideName(base, ram, cpu, counter) ==
    [base |-> base.base, ram |-> ram, cpu |-> cpu, n |-> counter]

NoFlavor == [name |-> PlainName(""), ram |-> 0, cpu |-> 0, disk |-> 0]

NoInstance == [name |-> "", ip |-> NoAddr, state |-> ""]

\* The stock flavors a backend may hold.
StockFlavors ==
    {[name |-> PlainName("m1.tiny"), ram |-> 512, cpu |-> 1, disk |-> 1],
     [name |-> PlainName("m1.small"), ram |-> 2048, cpu |-> 1, disk |-> 1],
     [name |-> PlainName("custom"), ram |-> 1024, cpu |-> 2, disk |-> 1]}

\* The RAM and CPU overrides a caller passes (0: none).
RamChoices == {0, 1024}

CpuChoices == {0, 2}

\* Flavors of other tenants that hold the names an override flavor would get
\* without having its properties.
TakenFlavors ==
    {[name |-> OverrideName(PlainName(b), r, c, n), ram |-> r, cpu |-> c, disk |-> 2] :
        b \in {"m1.tiny"}, r \in {1024}, c \in {1}, n \in 0..(MaxTaken - 1)}

\* deploy's arguments: vm_name, the flavor named (flavor_name, instance_type,
\* flavor_id, or none of them: m1.tiny), ram, cpu and floating_ip_pool.
DeployArgs ==
    [vm_name : Names, flavor : {"m1.tiny", "m1.small"},
     ram : RamChoices, cpu : CpuChoices, pool : BOOLEAN]

\* ram = ram or flavor.ram; cpu = cpu or flavor.vcpus
OrElse(x, y) == IF x # 0 THEN x ELSE y

\* self._api.flavors.find(**properties): the flavors that have them.
FlavorsLike(fs, ram, cpu, disk) ==
    {f \in fs : f.ram = ram /\ f.cpu = cpu /\ f.disk = disk}

\* self._get_or_create_override_flavor(flavor, cpu, ram) as a statement of its
\* own: what it returns is dropped and flavor stays what it was.
FlavorAfterOverride(flavor, made) == flavor

\* if 'vm_name' not in kwargs: vm_name = 'new_instance_name'.  vm_name is a
\* parameter of deploy, so kwargs never holds that key.
VmNameUsed(kw) == "new_instance_name"

\* deploy(vm_name, **kwargs) is called.
DeployCall ==
    /\ dpc = "idle"
    /\ dkw' \in DeployArgs
    /\ dpc' = "flavor"
    /\ UNCHANGED <<flavors, dflavor, dvm_name, dfname, dcounter, dmade, derr, dres>>
    /\ UNCHANGED <<pagvars, fipvars, asgvars, vmvars, opvars, besideDeploy>>

\* flavor = self._api.flavors.find(name=...); NotFound when there is none.
\* ram = kwargs.pop('ram', None); cpu = kwargs.pop('cpu', None)
DeployFlavor ==
    /\ dpc = "flavor"
    /\ LET found == {f \in flavors : f.name = PlainName(dkw.flavor)}
       IN  IF found = {}
           THEN /\ dpc' = "raised"
                /\ derr' = "NotFound"
                /\ dflavor' = dflavor
           ELSE /\ dflavor' \in found
                /\ dpc' = IF dkw.ram # 0 \/ dkw.cpu # 0 THEN "o_find" ELSE "name"
                /\ derr' = derr
    /\ UNCHANGED <<flavors, dkw, dvm_name, dfname, dcounter, dmade, dres>>
    /\ UNCHANGED <<pagvars, fipvars, asgvars, vmvars, opvars, besideDeploy>>

\* _get_or_create_override_flavor: new_flavor = self._api.flavors.find(...).
\* Found: it is returned.  NotFound: the creation loop starts with
\* flavor_name = base_flavor_name and counter = 0.
OverrideFind ==
    /\ dpc = "o_find"
    /\ LET ram == OrElse(dkw.ram, dflavor.ram)
           cpu == OrElse(dkw.cpu, dflavor.cpu)
           like == FlavorsLike(flavors, ram, cpu, dflavor.disk)
       IN  IF like # {}
           THEN /\ dmade' \in like
                /\ dflavor' = FlavorAfterOverride(dflavor, dmade')
                /\ dpc' = "name"
                /\ UNCHANGED <<dfname, dcounter>>
           ELSE /\ dfname' = OverrideName(dflavor.name, ram, cpu, 0)
                /\ dcounter' = 0
                /\ dpc' = "o_create"
                /\ UNCHANGED <<dmade, dflavor>>
    /\ UNCHANGED <<flavors, dkw, dvm_name, derr, dres>>
    /\ UNCHANGED <<pagvars, fipvars, asgvars, vmvars, opvars, besideDeploy>>

\* One turn of `while new_flavor is None`: flavors.create(name=flavor_name, ...)
\* answers Conflict for a name that is taken, and the next name is tried.
OverrideCreate ==
    /\ dpc = "o_create"
    /\ LET ram == OrElse(dkw.ram, dflavor.ram)
           cpu == OrElse(dkw.cpu, dflavor.cpu)
           new_flavor == [name |-> dfname, ram |-> ram, cpu |-> cpu,
                          disk |-> dflavor.disk]
       IN  IF \E f \in flavors : f.name = dfname
           THEN /\ dcounter' = dcounter + 1
                /\ dfname' = OverrideName(dflavor.name, ram, cpu, dcounter + 1)
                /\ UNCHANGED <<flavors, dmade, dflavor, dpc>>
           ELSE /\ flavors' = flavors \cup {new_flavor}
                /\ dmade' = new_flavor
                /\ dflavor' = FlavorAfterOverride(dflavor, new_flavor)
                /\ dpc' = "name"
                /\ UNCHANGED <<dfname, dcounter>>
    /\ UNCHANGED <<dkw, dvm_name, derr, dres>>
    /\ UNCHANGED <<pagvars, fipvars, asgvars, vmvars, opvars, besideDeploy>>

\* vm_name = 'new_instance_name', and the logger.info call whose argument
\* kwargs['vm_name'] raises KeyError: nothing below it in deploy
\* (servers.create, wait_for_state, assign_floating_ip, start) is ever run.
DeployName ==
    /\ dpc = "name"
    /\ dvm_name' = VmNameUsed(dkw)
    /\ dpc' = "raised"
    /\ derr' = "KeyError"
    /\ UNCHANGED <<flavors, dkw, dflavor, dfname, dcounter, dmade, dres>>
    /\ UNCHANGED <<pagvars, fipvars, asgvars, vmvars, opvars, besideDeploy>>

DepIdle ==
    /\ flavors = {}
    /\ dpc = "idle"
    /\ dkw = [vm_name |-> "", flavor |-> "", ram |-> 0, cpu |-> 0, pool |-> FALSE]
    /\ dflavor = NoFlavor
    /\ dvm_name = ""
    /\ dfname = PlainName("")
    /\ dcounter = 0
    /\ dmade = NoFlavor
    /\ derr = ""
    /\ dres = NoInstance

\* Any backend: some of the stock flavors, and some taken names.
DepInit ==
    /\ flavors \in {s \cup TakenFlavors : s \in SUBSET StockFlavors}
                   \cup SUBSET StockFlavors
    /\ dpc = "idle"
    /\ dkw = [vm_name |-> "", flavor |-> "", ram |-> 0, cpu |-> 0, pool |-> FALSE]
    /\ dflavor = NoFlavor
    /\ dvm_name = ""
    /\ dfname = PlainName("")
    /\ dcounter = 0
    /\ dmade = NoFlavor
    /\ derr = ""
    /\ dres = NoInstance

DeployNext ==
    \/ DeployCall
    \/ DeployFlavor
    \/ OverrideFind
    \/ OverrideCreate
    \/ DeployName

\* ----------------------------------------- OpenstackSystem.find_vms / get_vm
VmIds == 1..NumVms

\* The addresses instances carry here (NoAddr: none).
VmIps == {NoAddr, AddrOctet[1]}

\* get_vm's arguments; "", 0 and NoAddr stand for None.
GetArgs == [name : Names \cup {""}, id : {0, 1}, ip : VmIps]

\* The test find_vms makes on each instance of the listing:
\*   if name and instance.name == name / elif ip and instance.ip == ip
\*   / elif id and instance.id == id
Matches(i, args) ==
    \/ args.name # "" /\ insts[i].name = args.name
    \/ args.ip # NoAddr /\ insts[i].ip = args.ip
    \/ args.id # 0 /\ i = args.id

\* matches, in the order list_vms gave the instances.
RECURSIVE MatchesUpTo(_, _)
MatchesUpTo(n, args) ==
    IF n = 0 THEN <<>>
    ELSE IF Matches(n, args) THEN Append(MatchesUpTo(n - 1, args), n)
    ELSE MatchesUpTo(n - 1, args)

\* get_vm ends after its two tests without a return statement.
ValueOfGetVm(matches) == 0

\* get_vm(name, id, ip) is called.
GetVmCall ==
    /\ gpc = "idle"
    /\ gargs' \in GetArgs
    /\ gpc' = "find"
    /\ UNCHANGED <<insts, gmatches, gres, gerr>>
    /\ UNCHANGED <<pagvars, fipvars, asgvars, vmvars, opvars, besideGetVm>>

\* matches = self.find_vms(name, id, ip): ValueError without a name and an
\* ip, else the matching instances of list_vms().
FindVms ==
    /\ gpc = "find"
    /\ IF gargs.name = "" /\ gargs.ip = NoAddr
       THEN /\ gpc' = "raised"
            /\ gerr' = "ValueError"
            /\ gmatches' = gmatches
       ELSE /\ gpc' = "decide"
            /\ gmatches' = MatchesUpTo(NumVms, gargs)
            /\ gerr' = gerr
    /\ UNCHANGED <<insts, gargs, gres>>
    /\ UNCHANGED <<pagvars, fipvars, asgvars, vmvars, opvars, besideGetVm>>

\* if not matches: raise VMInstanceNotFound
\* elif len(matches) > 1: raise MultipleInstancesError
GetVmDecide ==
    /\ gpc = "decide"
    /\ IF Len(gmatches) = 0
       THEN /\ gpc' = "raised"
            /\ gerr' = "VMInstanceNotFound"
            /\ gres' = gres
       ELSE IF Len(gmatches) > 1
       THEN /\ gpc' = "raised"
            /\ gerr' = "MultipleInstancesError"
            /\ gres' = gres
       ELSE /\ gpc' = "returned"
            /\ gres' = ValueOfGetVm(gmatches)
            /\ gerr' = gerr
    /\ UNCHANGED <<insts, gargs, gmatches>>
    /\ UNCHANGED <<pagvars, fipvars, asgvars, vmvars, opvars, besideGetVm>>

GetIdle ==
    /\ insts = [i \in VmIds |-> [name |-> "web", ip |-> NoAddr]]
    /\ gpc = "idle"
    /\ gargs = [name |-> "", id |-> 0, ip |-> NoAddr]
    /\ gmatches = <<>>
    /\ gres = 0
    /\ gerr = ""

\* Any listing: instances of any names, with or without the address.
GetInit ==
    /\ insts \in [VmIds -> [name : Names, ip : VmIps]]
    /\ gpc = "idle"
    /\ gargs = [name |-> "", id |-> 0, ip |-> NoAddr]
    /\ gmatches = <<>>
    /\ gres = 0
    /\ gerr = ""

GetVmNext ==
    \/ GetVmCall
    \/ FindVms
    \/ GetVmDecide

\* ------------------------------------------------- OpenstackInstance.state
ErrorMessageAlwaysFault(hasFault) == "fault"

\* if not hasattr(inst, "fault"): raise VMError("Instance {} in error state!")
\* raise VMError("Instance {} error {}: {} | {}" with the fault's code, message
\* and created)
ErrorMessage(hasFault) == IF hasFault THEN "fault" ELSE "generic"

\* A caller reads instance.state: refresh, then the mapped state for any status
\* but ERROR, and VMError for ERROR.
StateRead ==
    /\ vexists
    /\ sseen' = [status |-> status, fault |-> fault]
    /\ IF status # "ERROR"
       THEN /\ sval' = VmStateOf(status)
            /\ serr' = ""
            /\ smsg' = ""
       ELSE /\ sval' = ""
            /\ serr' = "VMError"
            /\ smsg' = ErrorMessage(fault)
    /\ UNCHANGED fault
    /\ UNCHANGED <<pagvars, fipvars, asgvars, vmvars, opvars, besideState>>

\* The backend fails the accepted command: the instance goes to ERROR, with
\* or without the details of the fault.
BackendFaultReported ==
    /\ task # "none"
    /\ status' = "ERROR"
    /\ task' = "none"
    /\ fault' \in BOOLEAN
    /\ UNCHANGED <<sseen, sval, serr, smsg>>
    /\ UNCHANGED <<vexists, vdeleting, opvars, pagvars, fipvars, asgvars, besideState>>

StIdle ==
    /\ fault = FALSE
    /\ sseen = [status |-> "", fault |-> FALSE]
    /\ sval = ""
    /\ serr = ""
    /\ smsg = ""

\* An instance in ERROR may or may not have the details of its fault.
StInit ==
    /\ fault \in (IF status = "ERROR" THEN BOOLEAN ELSE {FALSE})
    /\ sseen = [status |-> "", fault |-> FALSE]
    /\ sval = ""
    /\ serr = ""
    /\ smsg = ""

\* ------------------------------------------------ _request_timeout_handler
Urls == {"/servers", "/os-floating-ips"}

Methods == {"GET", "POST", "DELETE"}

\* What SessionClient.request returns.
Responses == {"200", "202"}

\* What SessionClient.request raises beside requests.exceptions.Timeout.
OtherErrors == {"ConnectionError", "BadRequest"}

NoRequest == [url |-> "", method |-> ""]

RetriesSpentLate(n) == n > MaxRetries

\* except Timeout: if retry_count >= 3: ... raise
RetriesSpent(n) == n >= MaxRetries

\* client.request(url, method, **kwargs): callers pass no retry_count, the
\* default is 0.
RequestCall ==
    /\ qpc \in {"idle", "returned", "raised"}
    /\ \E u \in Urls, m \in Methods : qreq' = [url |-> u, method |-> m]
    /\ retry_count' = 0
    /\ qlog' = <<>>
    /\ qres' = ""
    /\ qerr' = ""
    /\ qpc' = "request"
    /\ UNCHANGED <<pagvars, fipvars, asgvars, vmvars, opvars, besideRequest>>

\* return SessionClient.request(self, url, method, **kwargs): every frame on
\* the stack returns what its callee returned.
RequestReturns ==
    /\ qpc = "request"
    /\ \E r \in Responses :
        /\ qlog' = Append(qlog, r)
        /\ qres' = r
    /\ qpc' = "returned"
    /\ UNCHANGED <<qreq, retry_count, qerr>>
    /\ UNCHANGED <<pagvars, fipvars, asgvars, vmvars, opvars, besideRequest>>

\* SessionClient.request raises something `except Timeout` does not catch; the
\* frames of earlier attempts are inside their except block and let it pass.
RequestRaises ==
    /\ qpc = "request"
    /\ \E e \in OtherErrors :
        /\ qlog' = Append(qlog, e)
        /\ qerr' = e
    /\ qpc' = "raised"
    /\ UNCHANGED <<qreq, retry_count, qres>>
    /\ UNCHANGED <<pagvars, fipvars, asgvars, vmvars, opvars, besideRequest>>

\* except Timeout: raise when the retries are spent, else retry_count += 1
\* and return self.request(url, method, retry_count=retry_count, **kwargs)
RequestTimesOut ==
    /\ qpc = "request"
    /\ qlog' = Append(qlog, "Timeout")
    /\ IF RetriesSpent(retry_count)
       THEN /\ qpc' = "raised"
            /\ qerr' = "Timeout"
            /\ retry_count' = retry_count
       ELSE /\ qpc' = "request"
            /\ qerr' = qerr
            /\ retry_count' = retry_count + 1
    /\ UNCHANGED <<qreq, qres>>
    /\ UNCHANGED <<pagvars, fipvars, asgvars, vmvars, opvars, besideRequest>>

ReqIdle ==
    /\ qpc = "idle"
    /\ qreq = NoRequest
    /\ retry_count = 0
    /\ qlog = <<>>
    /\ qres = ""
    /\ qerr = ""

RequestNext ==
    \/ RequestCall
    \/ RequestReturns
    \/ RequestRaises
    \/ RequestTimesOut

\* ---------------------------------------------------------- specifications
OtherIdle == RelIdle /\ TplIdle /\ DepIdle /\ GetIdle /\ StIdle /\ ReqIdle

InitPag == PagInit /\ FipIdle /\ AsgIdle /\ VmIdle /\ OpIdle /\ OtherIdle

SpecPag == InitPag /\ [][PagNext]_vars

InitFip == FipInit /\ AsgIdle /\ PagIdle /\ VmIdle /\ OpIdle /\ OtherIdle

\* assign_floating_ip beside other users of the pool who leave this instance alone.
SpecFipCalm == InitFip /\ [][AssignNext \/ PoolNext]_vars

\* assign_floating_ip beside actors who also attach to, detach from and steal
\* from this instance.
SpecFip == InitFip /\ [][AssignNext \/ PoolNext \/ InterferenceNext \/ ExtGrabChosen]_vars

InitPower == VmInit /\ OpIdle /\ FipIdle /\ AsgIdle /\ PagIdle /\ OtherIdle

\* The power methods of one instance, beside other actors who send power
\* commands of their own.
SpecPower == InitPower /\ [][PowerNext \/ BackendNext]_vars

InitDelete == FipInit /\ VmIdle /\ OpIdle /\ AsgIdle /\ PagIdle /\ OtherIdle

\* delete() of one instance, beside the other users of the pool, actors who
\* attach to and detach from this instance, and the backend's own deletion.
SpecDelete ==
    InitDelete /\ [][DeleteNext \/ PoolNext \/ InterferenceNext \/ VmGoneNext]_vars


InitRelease == ReqIdle /\ FipInit /\ RelIdle /\ TplIdle /\ DepIdle /\ AsgIdle /\ PagIdle /\ VmIdle /\ OpIdle /\ GetIdle /\ StIdle

\* The pool holds one address, free or on the instance.
OneAddrInit ==
    /\ fip \in {[a \in Addrs |-> IF a = AddrOctet[1] THEN s ELSE "unalloc"] :
                    s \in {"free", "self"}}
    /\ inst_fips = IF fip[AddrOctet[1]] = "self" THEN <<AddrOctet[1]>> ELSE <<>>

InitTemplate == ReqIdle /\ VmInit /\ OneAddrInit /\ TplInit /\ OpIdle /\ AsgIdle /\ PagIdle /\ RelIdle /\ DepIdle /\ GetIdle /\ StIdle

\* mark_as_template() of one instance, beside actors who send power commands
\* and attach to and detach from the instance, and the backend's own progress.
SpecTemplate ==
    InitTemplate /\ [][TemplateNext \/ TemplateCalleesNext \/ TemplateBackendNext
                         \/ InterferenceNext]_vars

InitDeploy ==
    ReqIdle /\ DepInit /\ VmIdle /\ OpIdle /\ FipIdle /\ AsgIdle /\ PagIdle /\ RelIdle /\ TplIdle
        /\ GetIdle /\ StIdle

\* One deploy() call against any backend.
SpecDeploy == InitDeploy /\ [][DeployNext]_vars

InitGetVm ==
    ReqIdle /\ GetInit /\ VmIdle /\ OpIdle /\ FipIdle /\ AsgIdle /\ PagIdle /\ RelIdle /\ TplIdle
        /\ DepIdle /\ StIdle

\* One get_vm() call over any listing.
SpecGetVm == InitGetVm /\ [][GetVmNext]_vars

InitState ==
    ReqIdle /\ VmInit /\ StInit /\ OpIdle /\ FipIdle /\ AsgIdle /\ PagIdle /\ RelIdle /\ TplIdle
        /\ DepIdle /\ GetIdle

\* Reads of instance.state and the power methods of one instance, beside
\* other actors' power commands and a backend that fails some of them.
SpecState ==
    InitState /\ [][StateRead \/ PowerNext \/ ExtCommand \/ BackendFinish
                      \/ BackendFaultReported]_vars

\* The same, with the caller's thread running on: a wait_for in progress makes
\* its next poll or reaches its deadline.
SpecPowerFair == SpecPower /\ WF_vars(PowerWait \/ PowerTimeout)

\* delete_floating_ip with nobody else using the pool: no address appears or
\* disappears but by this caller's own releases, so the wait cannot expire.
SpecReleaseAlone ==
    InitRelease /\ [][ReleaseCall \/ ReleaseAgain \/ ReleaseCheck \/ ReleaseLookup
                        \/ ReleaseDelete \/ ReleaseWait]_vars

\* delete_floating_ip beside the other users of the pool.
SpecRelease == InitRelease /\ [][ReleaseNext \/ PoolNext]_vars

InitPagQuiet == PagQuietInit /\ FipIdle /\ AsgIdle /\ VmIdle /\ OpIdle /\ OtherIdle

\* _generic_paginator over a collection nobody changes; the caller's thread
\* runs on, so the loop makes its next call.
SpecPagQuiet ==
    /\ InitPagQuiet
    /\ [][PagFirstCall \/ PagMarkerCall]_vars
    /\ WF_vars(PagFirstCall \/ PagMarkerCall)

InitRequest == PagIdle /\ FipIdle /\ AsgIdle /\ VmIdle /\ OpIdle /\ OtherIdle

\* Requests through the client whose request method was replaced, against a
\* backend that answers, fails or times out as it likes.
SpecRequest == InitRequest /\ [][RequestNext]_vars

\* ------------------------------------------------------ paginator claims
\* The markers of the rollback window of the accumulated list l.
WindowMarkers(l) == {MarkerAt(l, k) : k \in 0..(RollbackWindow(l) - 1)}

\* C1: when other actors only delete items and a rejected marker was followed
\* by a successful listing from an older accumulated item's marker, the list
\* _generic_paginator returns holds no id twice and holds every item the
\* backend kept throughout the scan.
C1_NoDuplicateComplete ==
    ppc = "returned" =>
        /\ NoDuplicates(presult)
        /\ alive \subseteq Range(presult)

C1_Witness ==
    /\ ppc = "returned"
    /\ prolled
    /\ alive # Items
    /\ Len(presult) > Cardinality(alive)

\* C2 as stated: with the 10 newest markers rejected and the 11th newest
\* acceptable, the enumeration does not fail.
C2_ResumesFromEleventh ==
    ppc = "raised" =>
        ~(/\ Len(lists) > MaxRollback
          /\ MarkerAccepted(lists[Len(lists) - MaxRollback], alive))

\* C2 amended: a page is resumed after at most 9 rejected markers, from the
\* 10th newest accumulated item at the oldest; the enumeration fails only
\* when no marker of the 10 newest is acceptable (whatever the 11th is), and
\* a list it returns holds every item the backend still holds.
C2_ResumesWithinWindow ==
    /\ plastdepth < MaxRollback
    /\ (ppc = "raised" =>
            \A m \in WindowMarkers(lists) : ~MarkerAccepted(m, alive))
    /\ (ppc = "returned" => alive \subseteq Range(presult))

C2_Witness ==
    /\ ppc = "loop"
    /\ pi = 0
    /\ plastdepth = MaxRollback - 1
    /\ pcalls = MaxRollback
    /\ pmarker = lists[Len(lists) - MaxRollback]
    /\ lists[Len(lists)] > lists[Len(lists) - 1]
    /\ lists[Len(lists)] \in alive

\* C3: when every marker of the rollback window (the last min(10, n) of the
\* n accumulated items) is rejected, _generic_paginator raises and returns no
\* list; one page fetch never takes more than 10 listing calls.
C3_GivesUpAfterWindow ==
    /\ pcalls <= MaxRollback
    /\ (ppc = "raised" =>
            /\ presult = <<>>
            /\ prejected = WindowMarkers(lists)
            /\ pcalls = RollbackWindow(lists))
    /\ (ppc = "loop" /\ lists # <<>> => Cardinality(prejected) < RollbackWindow(lists))
    /\ (ppc = "returned" => prejected = {} /\ presult = lists)

C3_Witness ==
    /\ ppc = "raised"
    /\ Len(lists) > MaxRollback
    /\ pcalls = MaxRollback

\* ----------------------------------------------------- floating-IP claims
\* a is the address of S whose string sorts first.
SortsFirst(a, S) ==
    /\ a \in S
    /\ \A b \in S \ {a} : StrLess(Digits(a), Digits(b))

\* The chosen address is on the instance once the attach step is behind.
ChosenIsAttached ==
    /\ apc \in {"attach", "sleep", "while", "final", "returned"}
    /\ (apc # "attach" => InstanceIp(inst_fips) = aip /\ fip[aip] = "self")
    /\ (apc = "returned" => aresult = aip)

\* C4: whatever other actors attach, detach or steal, when the acquisition
\* loop of assign_floating_ip returns an address, the address read at the final
\* check equals it; when the final read differs from the address last
\* attached, the call raises AssertionError and returns nothing.
C4_ReturnedIsObserved ==
    /\ (apc = "returned" /\ ~aflags.early =>
            /\ aflags.checked
            /\ aresult = aip
            /\ aobs = aresult
            /\ aresult # NoAddr)
    /\ (aflags.checked /\ aobs # aip =>
            /\ apc = "raised"
            /\ aerr = "AssertionError"
            /\ aresult = NoAddr)

C4_Witness ==
    /\ apc = "returned"
    /\ ~aflags.early
    /\ aflags.attached
    /\ aresult = aobs
    /\ Len(inst_fips) > 1

\* C5: with two or more free addresses listed and no floating IP on the
\* instance, assign_floating_ip attaches and returns the free address that
\* sorts first, and does not call create (other users of the pool leaving
\* this instance alone).
C5_ReusesFirstFree ==
    (aflags.listed /\ ~aflags.rescanned /\ Len(afree) > 1) =>
        /\ ~aflags.created
        /\ SortsFirst(aip, Range(afree))
        /\ ChosenIsAttached

C5_Witness ==
    /\ apc = "returned"
    /\ aflags.listed
    /\ Len(afree) > 1
    /\ ~aflags.created
    /\ aresult = afree[1]
    /\ \E b \in Range(afree) : b < aresult

\* C6: with at most one free address listed and a create that fails, the
\* free pool is listed again: when that listing is not empty the address
\* sorting first is attached and returned and nothing is raised; when it is
\* empty NoMoreFloatingIPs is raised and nothing is attached (other users of
\* the pool leaving this instance alone).
C6_FallsBackToRescan ==
    /\ (aflags.createfailed /\ apc # "rescan" => aflags.rescanned)
    /\ (aflags.rescanned =>
            /\ aflags.createfailed
            /\ IF afree # <<>>
               THEN /\ SortsFirst(aip, Range(afree))
                    /\ ChosenIsAttached
               ELSE /\ apc = "raised"
                    /\ aerr = "NoMoreFloatingIPs"
                    /\ ~aflags.attached
                    /\ inst_fips = <<>>)
    /\ (aerr = "NoMoreFloatingIPs" => aflags.rescanned /\ afree = <<>>)

C6_Witness ==
    /\ apc = "returned"
    /\ aflags.rescanned
    /\ aflags.createfailed
    /\ aresult = afree[1]
    /\ fip[aresult] = "self"

\* ---------------------------------------------------- power-state claims
\* The commands of the log l, without the statuses they met.
Issued(l) == [k \in 1..Len(l) |-> l[k].c]

\* The commands start() can send.
StartCommands == {"start", "resume", "unpause"}

\* C7: start, stop, suspend and pause, called on an instance whose freshly
\* read state is already the target state, return True and send the backend
\* no power command.
C7_NoCommandWhenAlreadyThere ==
    (/\ outer = "none"
     /\ op \in PowerOps
     /\ oreads # <<>>
     /\ oreads[1] = Target(op)) =>
        /\ opc = "done"
        /\ ores = "True"
        /\ cmds = <<>>
        /\ ocmd = "none"
        /\ Target(op) \in oflags.seen

C7_Witness ==
    /\ outer = "none"
    /\ op = "pause"
    /\ opc = "done"
    /\ ores = "True"
    /\ cmds = <<>>
    /\ oreads = <<"PAUSED">>
    /\ status = "PAUSED"

\* C8 as stated: an instance that start() found SUSPENDED never receives the
\* start command, also when the backend state changes between start()'s reads.
C8_SuspendedNeverStarted ==
    ~(/\ op = "start"
      /\ Len(oreads) = 3
      /\ oreads[1] = "SUSPENDED"
      /\ \E k \in 1..Len(cmds) : cmds[k].c = "start" /\ cmds[k].at = "SUSPENDED")

\* C8 amended: start() on an instance it reads as not RUNNING sends at most
\* one command, chosen by its later reads: resume when its second read shows
\* SUSPENDED, else unpause when its third read shows PAUSED, else start. The
\* start command reaches a SUSPENDED instance only when the state changed
\* after the read that tested for SUSPENDED.
C8_CommandFollowsReads ==
    op = "start" =>
        /\ Cardinality({k \in 1..Len(cmds) : cmds[k].c \in StartCommands}) <= 1
        /\ (ocmd # "none" =>
                /\ Len(oreads) >= 2
                /\ oreads[1] \notin {"RUNNING", "ERROR"}
                /\ ocmd = IF oreads[2] = "SUSPENDED" THEN "resume"
                          ELSE IF oreads[3] = "PAUSED" THEN "unpause"
                          ELSE "start")
        /\ (opc = "wait" => cmds # <<>> /\ cmds[Len(cmds)].c = ocmd)
        /\ \A k \in 1..Len(cmds) :
                /\ cmds[k].c \in StartCommands => cmds[k].c = ocmd
                /\ (cmds[k].c = "start" /\ cmds[k].at = "SUSPENDED"
                        => oreads[2] # "SUSPENDED")

C8_Witness ==
    /\ op = "start"
    /\ outer = "none"
    /\ opc = "done"
    /\ oreads = <<"SUSPENDED", "SUSPENDED">>
    /\ cmds = <<[c |-> "resume", at |-> "SUSPENDED"]>>

\* C9: restart() runs stop and then start: the start step begins only after
\* the stop step observed STOPPED, no stop command follows a command of the
\* start step, and restart reports success only when neither step raised.
C9_RestartStopsThenStarts ==
    outer = "restart" =>
        /\ (op = "start" => oflags.phase = 2 /\ "STOPPED" \in oflags.seen)
        /\ (op = "stop" => oflags.phase = 1)
        /\ \A j, k \in 1..Len(cmds) :
                (cmds[j].c \in StartCommands /\ cmds[k].c = "stop") => k < j
        /\ (opc = "done" =>
                /\ ores = "True"
                /\ oflags.phase = 2
                /\ oflags.seen = {"STOPPED", "RUNNING"}
                /\ oerr = "")
        /\ (opc = "raised" => ores = "" /\ oerr # "")

C9_Witness ==
    /\ outer = "restart"
    /\ opc = "done"
    /\ Issued(cmds) = <<"stop", "start">>

\* ------------------------------------------------------------ delete claims
\* C10: delete() detaches the instance's floating IP first, waiting until
\* the instance's address reads null, then sends the backend delete, and
\* returns True only after an existence check found the instance gone; the
\* backend delete is never sent before the detach step is over.
C10_DetachBeforeDelete ==
    op = "delete" =>
        /\ \A k \in 1..Len(cmds) :
                cmds[k].c = "delete" =>
                    /\ k = Len(cmds)
                    /\ dframe.unassign # "pending"
        /\ \A j, k \in 1..Len(cmds) :
                (cmds[j].c = "remove_floating_ip" /\ cmds[k].c = "delete") =>
                    /\ j < k
                    /\ dframe.unassign = "detached"
        /\ (dframe.unassign = "detached" =>
                /\ dframe.nullseen
                /\ \E k \in 1..Len(cmds) : cmds[k].c = "remove_floating_ip")
        /\ (opc = "done" \/ ores = "True" =>
                /\ opc = "done"
                /\ ores = "True"
                /\ dframe.absent
                /\ ~vexists
                /\ cmds # <<>>
                /\ cmds[Len(cmds)].c = "delete")

C10_Witness ==
    /\ op = "delete"
    /\ opc = "done"
    /\ ores = "True"
    /\ Issued(cmds) = <<"remove_floating_ip", "delete">>

\* ---------------------------------------------------------------- C11
ReleaseEnded == rpc \in {"returned", "raised"}

\* C11: releasing is idempotent.  A delete_floating_ip call given None, or an
\* address the backend did not list, ends without an error and without sending
\* a backend delete; a call that returns True has seen a listing without the
\* address; and releasing the same argument a second time never raises.
C11_ReleaseIdempotent ==
    /\ (ReleaseEnded /\ (rform = "none" \/ ~rlisted)) => (rerr = "" /\ rcmds = <<>>)
    /\ rres = "True" => rseen
    /\ (ReleaseEnded /\ rround = 2) => rerr = ""

\* ---------------------------------------------------------------- C12
\* C12: releasing an address that is on an instance detaches it first: every
\* backend delete of an attached address by delete_floating_ip comes after a
\* remove_floating_ip of the same call.
C12_DetachedBeforeRelease ==
    \A k \in 1..Len(rcmds) :
        (rcmds[k].c = "floating_ip.delete" /\ rcmds[k].attached)
            => \E j \in 1..(k - 1) : rcmds[j].c = "remove_floating_ip"

\* C12 as amended: delete_floating_ip never detaches; the one command a call
\* sends is the backend delete of the address, also for an attached address,
\* and a call that returns True for it has then seen the address gone.
C12_ReleaseDeletesDirectly ==
    /\ Len(rcmds) <= 1
    /\ \A k \in 1..Len(rcmds) : rcmds[k].c = "floating_ip.delete"
    /\ (rres = "True") => (Len(rcmds) = 1 /\ rseen)

\* An attached address was released and the call returned True.
C12_Witness ==
    /\ rres = "True"
    /\ Len(rcmds) = 1
    /\ rcmds[1].attached

\* ---------------------------------------------------------------- C13
\* The call failed at a step inside the try block.
StepFailed == tpc = "raised" /\ tfrom # "entry"

\* C13: when mark_as_template fails at a step after the initial rename, the
\* last thing it did was to attempt the rename back to the original name, and
\* when that rename succeeded the instance carries the name it had before the
\* call.
C13_RenamedBackOnFailure ==
    StepFailed =>
        /\ tlog # <<>>
        /\ tlog[Len(tlog)] = <<"rename", torig>>
        /\ trollback \in {"ok", "failed"}
        /\ trollback = "ok" => vname = torig

\* The snapshot was refused and the instance has its name back.
C13_Witness ==
    /\ StepFailed
    /\ tprimary = "Conflict"
    /\ trollback = "ok"
    /\ vname = torig
    /\ vname \in Names

\* ---------------------------------------------------------------- C14
\* C14: when a step fails and the rename back fails too, the caller gets the
\* step's error, not the rename's.
C14_PrimaryErrorSurfaces ==
    (StepFailed /\ trollback = "failed") => (tfrom = "step" /\ terr = tprimary)

\* ---------------------------------------------------------------- C15
\* What the call did before any rollback.
TplSteps == IF trollback = "none" THEN tlog ELSE SubSeq(tlog, 1, Len(tlog) - 1)

TplOrder ==
    << <<"rename", CopyName(torig)>>, <<"state", "STOPPED">>,
       <<"snapshot", torig>>, <<"image", "ACTIVE">> >>

\* C15: mark_as_template renames, observes the instance STOPPED, requests the
\* snapshot under the original name and observes the image ACTIVE, in that
\* order, and its delete of the instance reaches the backend only after all
\* four.
C15_SnapshotBeforeDelete ==
    /\ Len(TplSteps) <= Len(TplOrder)
    /\ \A k \in 1..Len(TplSteps) : TplSteps[k] = TplOrder[k]
    /\ (outer = "mark_as_template" /\ op = "delete" /\ "delete" \in Range(Issued(cmds)))
           => TplSteps = TplOrder
    /\ tres = "image" => (TplSteps = TplOrder /\ imgname = torig)

\* The call returned the image of an instance it had to stop first.
C15_Witness ==
    /\ tres = "image"
    /\ ~vexists
    /\ image = "ACTIVE"
    /\ status = "SHUTOFF"
    /\ "delete" \in Range(Issued(cmds))

\* ---------------------------------------------------------------- C16
DeployEnded == dpc \in {"returned", "raised"}

\* C16: a deploy call given an instance name and a floating_ip_pool, whose
\* flavor exists, returns an instance of the requested name that is RUNNING
\* and has a floating address.
C16_DeployReturnsRunningWithIp ==
    (DeployEnded /\ dkw.pool /\ dflavor # NoFlavor) =>
        /\ derr = ""
        /\ dres.name = dkw.vm_name
        /\ dres.state = "RUNNING"
        /\ dres.ip # NoAddr

\* ---------------------------------------------------------------- C17
\* C17: once deploy, given a ram or cpu override, is through choosing the
\* flavor, the flavor it holds for servers.create has the overriding RAM and
\* CPU.
C17_OverrideFlavorUsed ==
    (dpc \in {"name", "returned", "raised"} /\ dflavor # NoFlavor
        /\ (dkw.ram # 0 \/ dkw.cpu # 0)) =>
        /\ dkw.ram # 0 => dflavor.ram = dkw.ram
        /\ dkw.cpu # 0 => dflavor.cpu = dkw.cpu

\* ---------------------------------------------------------------- C18
\* The instances that have the given name, id or ip.
Matching == {i \in VmIds : \/ gargs.name # "" /\ insts[i].name = gargs.name
                           \/ gargs.id # 0 /\ i = gargs.id
                           \/ gargs.ip # NoAddr /\ insts[i].ip = gargs.ip}

\* C18: get_vm returns the one instance that matches the given name, id or
\* ip, raises VMInstanceNotFound when none matches and
\* MultipleInstancesError when several do, and never returns without an
\* instance.
C18_GetVmReturnsTheMatch ==
    gpc \in {"returned", "raised"} =>
        /\ Cardinality(Matching) = 1 => (gpc = "returned" /\ gres \in Matching)
        /\ Cardinality(Matching) = 0 => gerr = "VMInstanceNotFound"
        /\ Cardinality(Matching) > 1 => gerr = "MultipleInstancesError"
        /\ gpc = "returned" => gres # 0

\* ---------------------------------------------------------------- C19
\* C19: a read of the state of an instance in ERROR yields no state: it raises
\* VMError, with the fault's details when the backend reports them and with
\* the generic message when it does not; and a power method that reads ERROR
\* raises VMError there, choosing no command.
C19_ErrorStateRaises ==
    /\ sseen.status = "ERROR" =>
        /\ sval = ""
        /\ serr = "VMError"
        /\ smsg = (IF sseen.fault THEN "fault" ELSE "generic")
    /\ (sseen.status # "" /\ sseen.status # "ERROR") => (serr = "" /\ sval # "")
    /\ (op \in PowerOps /\ \E k \in 1..Len(oreads) : oreads[k] = "ERROR") =>
        /\ opc = "raised"
        /\ oerr = "VMError"
        /\ ocmd = "none"
        /\ oreads[Len(oreads)] = "ERROR"

\* The backend failed a command and reported the fault; a read raised with its
\* details, and start() raised on the same instance.
C19_Witness ==
    /\ sseen = [status |-> "ERROR", fault |-> TRUE]
    /\ smsg = "fault"
    /\ op = "start"
    /\ opc = "raised"
    /\ oerr = "VMError"
    /\ oreads # <<>>
    /\ oreads[Len(oreads)] = "ERROR"

\* ---------------------------------------------------------------- C20
\* The wait of a power method expired.
PowerTimedOut == op \in PowerOps /\ opc = "raised" /\ oerr = "TimedOutError"

\* On a timeout the method has sent its one command and nothing after it.
NoRollbackOnTimeout ==
    PowerTimedOut =>
        /\ cmds # <<>>
        /\ cmds[Len(cmds)].c = ocmd
        /\ outer = "none" => Len(cmds) = 1
        /\ outer = "restart" => Len(cmds) <= oflags.phase
        /\ ores = ""

SpareStep ==
    /\ (apc = "list" /\ apc' = "attach") =>
           /\ Len(afree') > 1
           /\ aip' = afree'[1]
           /\ fip' = fip
    /\ (apc = "list" /\ apc' # "list" /\ Len(free_fips(fip)) = 1) => apc' = "create"
    /\ (apc = "create" /\ apc' = "attach") =>
           /\ fip[aip'] = "unalloc"
           /\ \A a \in Addrs \ {aip'} : fip'[a] = fip[a]
           /\ inst_fips' = inst_fips
    /\ (apc = "attach" /\ inst_fips' # inst_fips) =>
           /\ inst_fips' = Append(inst_fips, aip)
           /\ \A a \in Addrs \ {aip} : fip'[a] = fip[a]

\* C21: assign_floating_ip keeps one free address in reserve.  A listed free
\* address is chosen without a create attempt only when more than one was
\* listed; when exactly one was listed the call goes on to create, the address
\* a successful create hands back was not in the pool before, and the attach
\* that follows puts that address and no other on the instance, leaving every
\* other address of the pool as it was.
C21_KeepsOneSpare == [][SpareStep]_vars

\* One address was free, a new one was created and attached, and the free
\* one is free still.
C21_Witness ==
    /\ apc = "returned"
    /\ aflags.created
    /\ ~aflags.createfailed
    /\ Len(afree) = 1
    /\ fip[afree[1]] = "free"
    /\ aresult = aip
    /\ inst_fips = <<aip>>

\* ---------------------------------------------------------------- C22
\* One step of assign_floating_ip's loop, as far as its reads go.
LoopStep ==
    /\ (apc = "attach" /\ apc' # "attach") => apc' \in {"sleep", "raised"}
    /\ apc \in {"attach", "sleep"} => aobs' = aobs
    /\ (apc = "sleep" /\ apc' # "sleep") => apc' = "while"
    /\ (apc = "while" /\ apc' # "while") =>
           /\ aobs' = InstanceIp(inst_fips)
           /\ apc' = IF aobs' = NoAddr THEN "list" ELSE "final"
    /\ (apc = "list" /\ apc' # "list") => afree' = free_fips(fip)
    /\ (apc' = "returned" /\ apc # "returned" /\ ~aflags'.early) => aobs' # NoAddr

\* C22: in assign_floating_ip every attach is followed by the safety interval,
\* and the instance's address is not read between the two; the read after the
\* interval, when it finds no address, sends the loop into a new turn that
\* begins with a fresh listing of the free addresses; the loop is left, and the
\* call returns from it, only with an address in the most recent read.
C22_AttachSleepReadAgain == [][LoopStep]_vars

\* The address attached in the last turn was gone at the read after the
\* interval, and the loop is about to list again.
C22_Witness ==
    /\ apc = "list"
    /\ aflags.attached
    /\ aip # NoAddr
    /\ aobs = NoAddr

\* ---------------------------------------------------------------- C23
\* A power method returns normally in this step: to its caller, or inside
\* restart from the stop step to the start step.
ReturnsNormally ==
    \/ opc # "done" /\ opc' = "done"
    \/ oflags.phase = 1 /\ oflags'.phase = 2

\* C23: start, stop, suspend and pause return normally only in a step that
\* reads the instance's state from the backend and finds the target state: the
\* first test of the method or a poll of its wait, never the step that sends
\* the command.
C23_ReturnsOnFreshRead ==
    [][ReturnsNormally =>
            /\ op \in PowerOps
            /\ opc \in {"check", "wait"}
            /\ IsState(VmStateOf(status), Target(op))
            /\ status' = status
            /\ Target(op) \in oflags'.seen]_vars

\* suspend() sent its command to a running instance and returned once the
\* backend showed it SUSPENDED.
C23_Witness ==
    /\ op = "suspend"
    /\ opc = "done"
    /\ cmds = <<[c |-> "suspend", at |-> "ACTIVE"]>>
    /\ oreads = <<"RUNNING">>
    /\ status = "SUSPENDED"

\* ---------------------------------------------------------------- C24
\* The backend deletes of floating IPs that the call has sent.
FipDeletes == {k \in 1..Len(cmds) : cmds[k].c = "floating_ip.delete"}

\* This step sends the backend delete of a floating IP.
SendsFipDelete == Len(cmds') = Len(cmds) + 1 /\ cmds'[Len(cmds')].c = "floating_ip.delete"

\* C24: delete() without delete_fip sends no backend delete of a floating IP,
\* and its detach leaves the address allocated; delete(delete_fip=True), which
\* is cleanup(), sends one such delete at most, after the detach, for the very
\* address it read on the instance and detached, and takes no other address
\* out of the pool; it sends none when the instance had no address or the
\* backend listed no floating IP for it.
C24_DeletesTheAttachedFip ==
    [][op = "delete" /\ op' = "delete" =>
        /\ (~dframe'.delete_fip \/ dframe'.unassign \in {"no_ip", "no_fip"}) => FipDeletes' = {}
        /\ Cardinality(FipDeletes') <= 1
        /\ (opc = "u_detach" /\ opc' # "u_detach") =>
               \A a \in Addrs : fip'[a] = "unalloc" => fip[a] = "unalloc"
        /\ SendsFipDelete =>
               /\ dframe.delete_fip
               /\ dframe.unassign = "detached"
               /\ dframe.floating_ip # NoAddr
               /\ dframe.floating_ip = dframe.ip_addr
               /\ \E k \in 1..Len(cmds) : cmds[k].c = "remove_floating_ip"
               /\ \A a \in Addrs \ {dframe.floating_ip} : fip'[a] = fip[a]
               /\ fip'[dframe.floating_ip] = "unalloc"]_vars

\* cleanup() detached the instance's address, deleted it and then the
\* instance.
C24_Witness ==
    /\ op = "delete"
    /\ opc = "done"
    /\ dframe.delete_fip
    /\ dframe.floating_ip # NoAddr
    /\ fip[dframe.floating_ip] = "unalloc"
    /\ Issued(cmds) = <<"remove_floating_ip", "floating_ip.delete", "delete">>

\* ---------------------------------------------------------------- C25
\* The detach commands that the call has sent.
Detaches == {k \in 1..Len(cmds) : cmds[k].c = "remove_floating_ip"}

\* unassign_floating_ip comes to its end in this step, in the way given.
UnassignEnds(how) == dframe.unassign = "pending" /\ dframe'.unassign = how

\* C25: unassign_floating_ip sends no detach and returns None when its read of
\* the instance shows no floating address, or when the backend lists no
\* floating IP for the address read; otherwise it sends one detach, for the
\* floating IP of that address, and returns that object only after a read of
\* the instance's address gave null.
C25_UnassignDetachesOnce ==
    [][op' = "delete" =>
        /\ UnassignEnds("no_ip") => InstanceIp(inst_fips) = NoAddr
        /\ UnassignEnds("no_fip") => fip[dframe.ip_addr] = "unalloc"
        /\ dframe'.unassign \in {"no_ip", "no_fip"} =>
               /\ Detaches' = {}
               /\ dframe'.floating_ip = NoAddr
        /\ (opc = "u_read" /\ opc' # "u_read" /\ InstanceIp(inst_fips) # NoAddr) =>
               opc' \in {"u_find", "raised"}
        /\ (opc = "u_read" /\ opc' # "u_read" /\ InstanceIp(inst_fips) = NoAddr) =>
               (dframe'.unassign = "no_ip" \/ opc' = "raised")
        /\ (opc = "u_find" /\ opc' # "u_find") =>
               IF fip[dframe.ip_addr] = "unalloc"
               THEN dframe'.unassign = "no_fip"
               ELSE opc' = "u_detach"
        /\ (opc = "u_detach" /\ opc' # "u_detach") =>
               /\ Detaches' = {Len(cmds')}
               /\ dframe.floating_ip = dframe.ip_addr
               /\ fip[dframe.floating_ip] = "self" => dframe.floating_ip \notin Range(inst_fips')
        /\ Cardinality(Detaches') <= 1
        /\ UnassignEnds("detached") =>
               /\ InstanceIp(inst_fips) = NoAddr
               /\ Cardinality(Detaches) = 1
               /\ dframe'.floating_ip = dframe.ip_addr
               /\ dframe'.floating_ip # NoAddr]_vars

\* The instance's address was detached and unassign_floating_ip returned its
\* floating IP.
C25_Witness ==
    /\ op = "delete"
    /\ ~dframe.delete_fip
    /\ opc = "d_delete"
    /\ dframe.unassign = "detached"
    /\ dframe.floating_ip # NoAddr
    /\ fip[dframe.floating_ip] = "free"
    /\ Issued(cmds) = <<"remove_floating_ip">>

\* ---------------------------------------------------------------- C26
RequestEnded == qpc \in {"returned", "raised"}

\* C26: the replaced request method retries only after a Timeout and three
\* times at most: one call makes four attempts at most, every attempt but the
\* last ended in Timeout, a response is returned by the attempt that got it, an
\* error other than Timeout is raised by the attempt that met it, and Timeout
\* is raised only when the first attempt and all three retries timed out.
C26_RetriesOnlyTimeouts ==
    /\ Len(qlog) <= MaxRetries + 1
    /\ retry_count <= MaxRetries
    /\ \A k \in 1..(Len(qlog) - 1) : qlog[k] = "Timeout"
    /\ qpc = "request" =>
           /\ Len(qlog) = retry_count
           /\ \A k \in 1..Len(qlog) : qlog[k] = "Timeout"
    /\ qpc = "returned" =>
           /\ qlog[Len(qlog)] \in Responses
           /\ qres = qlog[Len(qlog)]
           /\ qerr = ""
    /\ qpc = "raised" =>
           /\ qerr = qlog[Len(qlog)]
           /\ qres = ""
           /\ qerr \in OtherErrors \cup {"Timeout"}
           /\ qerr = "Timeout" => Len(qlog) = MaxRetries + 1

\* The request and its three retries all timed out and Timeout was raised.
C26_Witness ==
    /\ qpc = "raised"
    /\ qerr = "Timeout"
    /\ retry_count = MaxRetries
    /\ qlog = <<"Timeout", "Timeout", "Timeout", "Timeout">>

\* ---------------------------------------------------------------- C27
\* The accumulated list is the beginning of the backend's collection, in the
\* backend's order.
IsPrefix(l, whole) == Len(l) <= Len(whole) /\ \A k \in 1..Len(l) : l[k] = whole[k]

\* One call of the listing function: the first carries no marker, a later one
\* the id of the last accumulated item; only an empty page ends the loop.
QuietCall ==
    ppc = "loop" =>
        /\ pmarker' = (IF lists = <<>> THEN 0 ELSE lists[Len(lists)])
        /\ ppc' \in {"loop", "returned"}
        /\ ppc' = "returned" <=> ListPage(pmarker', 1, alive) = <<>>
        /\ ppc' = "returned" => presult' = lists

\* C27: over a collection that does not change, where no marker is rejected,
\* _generic_paginator ends, at the first empty page, and returns the backend's
\* items in the backend's order, each once; its first call carries no marker
\* and every later call the id of the last item accumulated.
C27_QuietListingComplete ==
    /\ [][QuietCall]_vars
    /\ [](/\ prejected = {}
          /\ IsPrefix(lists, AliveFrom(1, alive))
          /\ ppc = "returned" => presult = AliveFrom(1, alive) /\ NoDuplicates(presult))
    /\ <>(ppc = "returned")

\* The whole collection was returned, the last call carrying the id of its
\* last item.
C27_Witness ==
    /\ ppc = "returned"
    /\ alive = Items
    /\ presult = AliveFrom(1, Items)
    /\ Len(presult) = NumItems
    /\ pmarker = NumItems

\* ---------------------------------------------------------------- C28
\* One step of assign_floating_ip before its loop.
EarlyStep ==
    /\ (apc = "check" /\ apc' # "check") =>
           (apc' = "reread" <=> InstanceIp(inst_fips) # NoAddr)
    /\ (apc = "reread" /\ apc' # "reread") =>
           /\ apc' = "returned"
           /\ aresult' = InstanceIp(inst_fips)
           /\ aresult' = aobs
           /\ aresult' # NoAddr
    /\ (apc \in {"check", "reread"} /\ apc' # apc) =>
           /\ fip' = fip
           /\ inst_fips' = inst_fips
           /\ afree' = <<>>
           /\ aip' = NoAddr
           /\ ~aflags'.listed /\ ~aflags'.created /\ ~aflags'.attached

\* C28: assign_floating_ip called on an instance that has a floating address
\* returns that address, and neither lists the free addresses, nor creates
\* one, nor attaches one: the pool and the instance's addresses are as they
\* were.
C28_ExistingAddressReturned == [][EarlyStep]_vars

\* The call returned the address the instance had, having listed nothing.
C28_Witness ==
    /\ apc = "returned"
    /\ aflags.early
    /\ ~aflags.listed
    /\ aresult # NoAddr
    /\ aresult = InstanceIp(inst_fips)
    /\ fip[aresult] = "self"

\* ---------------------------------------------------------------- C29
\* C29: whatever other actors attach to or detach from the instance between
\* the reads of assign_floating_ip, a call that returns normally returns an
\* address, never null.
C29_ReturnsAnAddress == apc = "returned" => aresult # NoAddr

\* ---------------------------------------------------------------- C30
\* C30: every power transition that completes normally returns True, whether
\* the instance was in the target state already or the transition was
\* carried out.
C30_ReturnsTrue == (op \in PowerOps /\ opc = "done") => ores = "True"

====
